---- MODULE Spec2Model ----
(***************************************************************************)
(* A model of python_general_lib's sqlite3_wrap package: the schema model  *)
(* (SQLField / SQLTable / SQLDatabase of sqlite_structure.py) and the      *)
(* connector with its auto-migration (SQLite3Connector of                  *)
(* sqlite_connector.py).                                                   *)
(*                                                                         *)
(* One set of variables holds the program's objects.  Several              *)
(* specifications drive them, each with the operations and the inputs of   *)
(* one part of the program:                                                *)
(*   SpecTable  one SQLTable: AddField, SetPrimaryKey, AddForeignKey       *)
(*   SpecIndex  one SQLTable: AddIndex and the index SQL rendering         *)
(*   SpecDB     an SQLDatabase: AddTable, late AddForeignKey, the cycle    *)
(*              check, ValidateStructure, GenerateSQLScript                *)
(*   SpecConn   an SQLite3Connector: Connect, TableValidation, Close       *)
(*   SpecBuild  SQLDatabase.CreateFromDictV2 and GenerateSQLDatabase        *)
(*   SpecIntervals  an IntervalManager: AddInterval, RemoveInterval         *)
(*   SpecTrigger, SpecLoop  an AsyncTimedTrigger, its callers and tasks     *)
(*   SpecPool   the thread pools of dispatch/thread_builder.py              *)
(***************************************************************************)
EXTENDS Integers, Sequences, FiniteSets, TLC

VARIABLES
  tbl,        \* the SQLTable objects, by table name
  db,         \* the SQLDatabase: tables, table_name_dict, foreign_key_graph
  ret,        \* the outcome of the last call: its name and the error it raised
  conn,       \* SQLite3Connector.conn: "None" or "open"
  file,       \* whether a file exists at SQLite3Connector.path
  live,       \* the live database: table name -> column name -> type string
  issued,     \* the statements handed to conn.execute / executescript, in order
  warnings,   \* the logger.warning / logger.error records, in order
  commit_when_leave,  \* SQLite3Connector.commit_when_leave
  in_transaction,     \* conn.in_transaction: a transaction is open
  rows,       \* the rows the caller has inserted, as the connection sees them
  durable,    \* what the database file holds: the committed tables and rows
  intervals,  \* IntervalManager.intervals: the stored intervals, in order
  trigger,    \* an AsyncTimedTrigger, its loop tasks and its callers
  pool        \* a OneInThreadPool / OneInOneOutThreadPool and its threads

vars == <<tbl, db, ret, conn, file, live, issued, warnings,
          commit_when_leave, in_transaction, rows, durable,
          intervals, trigger, pool>>

\* the objects outside the sqlite3_wrap package
others == <<intervals, trigger, pool>>

\* none of them has been constructed
NoOthers ==
  /\ intervals = <<>>
  /\ trigger = <<>>
  /\ pool = <<>>

\* the variables of the connection's transaction
session == <<commit_when_leave, in_transaction, rows, durable>>

\* no connection is in use: nothing is pending, the file holds what live shows
NoSession ==
  /\ commit_when_leave = TRUE
  /\ in_transaction = FALSE
  /\ rows = 0
  /\ durable = [live |-> live, rows |-> 0]

(***************************************************************************)
(* Bounds of the model.                                                    *)
(***************************************************************************)
NumFieldNames == 2     \* column names offered to a table
MaxColumns == 2        \* longest column list passed to a constraint
MaxForeignKeys == 1    \* foreign keys per table in SpecTable
MaxIndexes == 2        \* indexes per table in SpecIndex
MaxDbForeignKeys == 3  \* foreign keys over all tables in SpecDB
MaxLateForeignKeys == 1  \* of them, declared after the table was added
MaxLog == 3            \* statements and warnings logged before a call in SpecConn
MaxUniqueConstraints == 1  \* unique constraints per table in SpecCreate
MaxCheckConstraints == 1   \* check constraints per table in SpecCreate

NameList == <<"a", "b", "c", "d">>
FieldNames == {NameList[i] : i \in 1..NumFieldNames}
TableNames == {"users", "posts", "tags"}
\* the names a foreign key may give as ref_table
RefNames == TableNames
TheTable == "users"

\* Python's None where a string is expected (no input is this literal)
None == "None"

\* F(x), x being evaluated once however often F refers to it
Bind(F(_), x) == CHOOSE y \in {F(v) : v \in {x}} : TRUE

Range(s) == {s[i] : i \in 1..Len(s)}

\* contiguous slices of NameList: the column lists offered as inputs
ColumnLists ==
  {<<>>} \cup {SubSeq(NameList, i, j) :
                 i \in 1..NumFieldNames, j \in 1..NumFieldNames}
RefList == <<"id", "id2", "id3", "id4">>
RefColumnLists == {SubSeq(RefList, 1, n) : n \in 0..MaxColumns}

(***************************************************************************)
(* Python strings, character by character: str.upper, the in operator,     *)
(* str.replace, str.strip and str.split(" ", 1)[0].                        *)
(***************************************************************************)
Char(s, i) == SubSeq(s, i, i)

LowerCase == "abcdefghijklmnopqrstuvwxyz"
UpperCase == "ABCDEFGHIJKLMNOPQRSTUVWXYZ"

UpperChar(c) ==
  IF \E i \in 1..Len(LowerCase) : Char(LowerCase, i) = c
    THEN Char(UpperCase, CHOOSE i \in 1..Len(LowerCase) : Char(LowerCase, i) = c)
    ELSE c

RECURSIVE upper(_)
upper(s) == IF s = "" THEN "" ELSE UpperChar(Char(s, 1)) \o upper(Tail(s))

\* the places of s, from place from on, where sub starts
Occurrences(s, sub, from) ==
  {i \in from..(Len(s) - Len(sub) + 1) : SubSeq(s, i, i + Len(sub) - 1) = sub}

Lowest(S) == CHOOSE i \in S : \A j \in S : i <= j

\* s.find(sub), counted from 1: 0 when sub is not in s
find(s, sub) ==
  IF Occurrences(s, sub, 1) = {} THEN 0 ELSE Lowest(Occurrences(s, sub, 1))

\* sub in s
Contains(s, sub) == find(s, sub) # 0

RECURSIVE replace(_, _, _)
\* s.replace(old, new), for a non-empty old
replace(s, old, new) ==
  LET i == find(s, old) IN
    IF i = 0 THEN s
    ELSE SubSeq(s, 1, i - 1) \o new
           \o replace(SubSeq(s, i + Len(old), Len(s)), old, new)

IsSpace(c) == c \in {" ", "\t", "\n"}

RECURSIVE lstrip(_), rstrip(_)
lstrip(s) == IF s # "" /\ IsSpace(Char(s, 1)) THEN lstrip(Tail(s)) ELSE s
rstrip(s) ==
  IF s # "" /\ IsSpace(Char(s, Len(s)))
    THEN rstrip(SubSeq(s, 1, Len(s) - 1)) ELSE s
strip(s) == rstrip(lstrip(s))

\* s.split(" ", 1)[0]
FirstWord(s) == IF find(s, " ") = 0 THEN s ELSE SubSeq(s, 1, find(s, " ") - 1)

\* s[i-1:j], counted from 1: a slice is cut at the end of the string
Slice(s, i, j) ==
  IF i > Len(s) \/ j < i THEN ""
  ELSE SubSeq(s, i, IF j > Len(s) THEN Len(s) ELSE j)

(***************************************************************************)
(* Python values, by their type.  A number carries its value in int (a     *)
(* bool is 1 or 0, a float its value in tenths), a string, a bytes object, *)
(* a date or a datetime its text.                                          *)
(***************************************************************************)
PyNone == [type |-> "NoneType", int |-> 0, text |-> ""]
PyBool(b) == [type |-> "bool", int |-> IF b THEN 1 ELSE 0, text |-> ""]
PyInt(n) == [type |-> "int", int |-> n, text |-> ""]
PyFloat(tenths) == [type |-> "float", int |-> tenths, text |-> ""]
PyStr(s) == [type |-> "str", int |-> 0, text |-> s]
PyBytes(s) == [type |-> "bytes", int |-> 0, text |-> s]
PyDate(iso) == [type |-> "date", int |-> 0, text |-> iso]
PyDatetime(iso) == [type |-> "datetime", int |-> 0, text |-> iso]

Digits == "0123456789"

RECURSIVE NatToStr(_)
NatToStr(n) ==
  IF n < Len(Digits) THEN Char(Digits, n + 1)
  ELSE NatToStr(n \div Len(Digits)) \o Char(Digits, (n % Len(Digits)) + 1)

IntToStr(n) == IF n < 0 THEN "-" \o NatToStr(-n) ELSE NatToStr(n)

\* str(value)
StrOf(value) ==
  CASE value.type = "NoneType" -> "None"
    [] value.type = "bool" -> (IF value.int = 1 THEN "True" ELSE "False")
    [] value.type = "int" -> IntToStr(value.int)
    [] value.type = "float" ->
         (IF value.int < 0 THEN "-" ELSE "")
           \o NatToStr((IF value.int < 0 THEN -value.int ELSE value.int)
                         \div Len(Digits))
           \o "." \o NatToStr((IF value.int < 0 THEN -value.int ELSE value.int)
                                % Len(Digits))
    [] value.type = "bytes" -> "b'" \o value.text \o "'"
    [] OTHER -> value.text

\* isinstance(value, cls): bool is a subclass of int, datetime of date
IsInstance(value, cls) ==
  \/ cls = "object"
  \/ value.type = cls
  \/ value.type = "bool" /\ cls = "int"
  \/ value.type = "datetime" /\ cls = "date"

(***************************************************************************)
(* SQLField, PrimaryKeyConstraint, ForeignKey, Index, SQLTable             *)
(***************************************************************************)
\* SQLField.__init__ with every argument
SQLField_init(name, data_type_str, is_primary, unique, not_null, default, check) ==
  [name |-> name, data_type_str |-> data_type_str,
   is_primary |-> is_primary, unique |-> unique,
   not_null |-> not_null, default |-> default, check |-> check]

\* SQLField(name, data_type_str, is_primary, unique): the rest by default
SQLField(name, data_type_str, is_primary, unique) ==
  SQLField_init(name, data_type_str, is_primary, unique, FALSE, PyNone, None)

\* self.primary_key = None
NoPrimaryKey == [columns |-> <<>>, constraint_type |-> "None"]

PrimaryKeyConstraint(columns, constraint_type) ==
  [columns |-> columns, constraint_type |-> constraint_type]

ForeignKey(local_columns, ref_table, ref_columns) ==
  [local_columns |-> local_columns, ref_table |-> ref_table,
   ref_columns |-> ref_columns]

Index(columns, unique, name) ==
  [columns |-> columns, unique |-> unique, name |-> name]

SQLTable(name) ==
  [name |-> name, fields |-> <<>>, field_name_dict |-> {},
   primary_key |-> NoPrimaryKey, foreign_keys |-> <<>>,
   unique_constraints |-> <<>>, check_constraints |-> <<>>, indexes |-> <<>>]

NoError == ""
\* the last call: its name, the error it raised and the value it returned
Ret(op, error) == [op |-> op, error |-> error, value |-> <<>>]
Returned(op, value) == [op |-> op, error |-> NoError, value |-> value]

\* what a method returns to its caller: the object after the call and the error
\* it raised ("" when it returned normally)
Outcome(table, error) == [table |-> table, error |-> error]

(***************************************************************************)
(* SQLTable.AddField                                                       *)
(***************************************************************************)
\* mutant: the field is appended before the duplicate check raises
SQLTable_AddField_AppendFirst(t, field) ==
  LET added == [t EXCEPT !.fields = Append(@, field),
                         !.field_name_dict = @ \cup {field.name}] IN
  IF field.name \in t.field_name_dict
    THEN Outcome(added, "FieldExists")
  ELSE IF field.is_primary /\ t.primary_key # NoPrimaryKey
    THEN Outcome(t, "PrimaryKeyExists")
  ELSE Outcome(
         [added EXCEPT
            !.primary_key = IF field.is_primary
                              THEN PrimaryKeyConstraint(<<field.name>>, "column")
                              ELSE @],
         NoError)

SQLTable_AddField(t, field) ==
  IF field.name \in t.field_name_dict
    THEN Outcome(t, "FieldExists")
  ELSE IF field.is_primary /\ t.primary_key # NoPrimaryKey
    THEN Outcome(t, "PrimaryKeyExists")
  ELSE Outcome(
         [t EXCEPT
            !.primary_key = IF field.is_primary
                              THEN PrimaryKeyConstraint(<<field.name>>, "column")
                              ELSE @,
            !.fields = Append(@, field),
            !.field_name_dict = @ \cup {field.name}],
         NoError)

(***************************************************************************)
(* SQLTable.SetPrimaryKey                                                  *)
(***************************************************************************)
\* mutant: an existing primary key is silently replaced
SQLTable_SetPrimaryKey_Overwrite(t, columns) ==
  IF \E i \in 1..Len(columns) : columns[i] \notin t.field_name_dict
    THEN Outcome(t, "ColumnMissing")
  ELSE Outcome([t EXCEPT !.primary_key = PrimaryKeyConstraint(columns, "table")],
               NoError)

SQLTable_SetPrimaryKey(t, columns) ==
  IF t.primary_key # NoPrimaryKey
    THEN Outcome(t, "PrimaryKeyExists")
  ELSE IF \E i \in 1..Len(columns) : columns[i] \notin t.field_name_dict
    THEN Outcome(t, "ColumnMissing")
  ELSE Outcome([t EXCEPT !.primary_key = PrimaryKeyConstraint(columns, "table")],
               NoError)

(***************************************************************************)
(* SQLTable.AddForeignKey                                                  *)
(***************************************************************************)
\* mutant: the column counts are not compared
SQLTable_AddForeignKey_NoCountCheck(t, local_columns, ref_table, ref_columns) ==
  IF \E i \in 1..Len(local_columns) :
       local_columns[i] \notin t.field_name_dict
    THEN Outcome(t, "ColumnMissing")
  ELSE Outcome(
         [t EXCEPT !.foreign_keys =
            Append(@, ForeignKey(local_columns, ref_table, ref_columns))],
         NoError)

SQLTable_AddForeignKey(t, local_columns, ref_table, ref_columns) ==
  IF Len(local_columns) # Len(ref_columns)
    THEN Outcome(t, "ColumnCountMismatch")
  ELSE IF \E i \in 1..Len(local_columns) :
            local_columns[i] \notin t.field_name_dict
    THEN Outcome(t, "ColumnMissing")
  ELSE Outcome(
         [t EXCEPT !.foreign_keys =
            Append(@, ForeignKey(local_columns, ref_table, ref_columns))],
         NoError)

(***************************************************************************)
(* The calls on a table object, as actions.  A call that raises leaves     *)
(* the object as the method left it and records the error.                 *)
(***************************************************************************)
AddField(name, field) ==
  LET r == SQLTable_AddField(tbl[name], field) IN
    /\ tbl' = [tbl EXCEPT ![name] = r.table]
    /\ ret' = Ret("AddField", r.error)
    /\ UNCHANGED <<db, conn, file, live, issued, warnings, session, others>>

SetPrimaryKey(name, columns) ==
  LET r == SQLTable_SetPrimaryKey(tbl[name], columns) IN
    /\ tbl' = [tbl EXCEPT ![name] = r.table]
    /\ ret' = Ret("SetPrimaryKey", r.error)
    /\ UNCHANGED <<db, conn, file, live, issued, warnings, session, others>>

AddForeignKey(name, local_columns, ref_table, ref_columns) ==
  LET r == SQLTable_AddForeignKey(tbl[name], local_columns, ref_table,
                                  ref_columns) IN
    /\ tbl' = [tbl EXCEPT ![name] = r.table]
    /\ ret' = Ret("AddForeignKey", r.error)
    /\ UNCHANGED <<db, conn, file, live, issued, warnings, session, others>>

(***************************************************************************)
(* SQLDatabase()                                                           *)
(***************************************************************************)
SQLDatabase ==
  [tables |-> <<>>, table_name_dict |-> {},
   foreign_key_graph |-> [n \in RefNames |-> <<>>]]

(***************************************************************************)
(* SpecTable: one freshly constructed table and its mutators.              *)
(***************************************************************************)
FieldInputs ==
  {SQLField(n, "INTEGER", p, FALSE) : n \in FieldNames, p \in BOOLEAN}

InitTable ==
  /\ tbl = [n \in TableNames |-> SQLTable(n)]
  /\ db = SQLDatabase
  /\ ret = Ret("init", NoError)
  /\ conn = "None"
  /\ file = FALSE
  /\ live = [n \in {} |-> <<>>]
  /\ issued = <<>>
  /\ warnings = <<>>
  /\ NoSession
  /\ NoOthers

NextTable ==
  \/ \E f \in FieldInputs : AddField(TheTable, f)
  \/ \E c \in ColumnLists : SetPrimaryKey(TheTable, c)
  \/ \E l \in ColumnLists, r \in RefColumnLists :
       /\ \/ Len(tbl[TheTable].foreign_keys) < MaxForeignKeys
          \/ SQLTable_AddForeignKey(tbl[TheTable], l, "posts", r).error # NoError
       /\ AddForeignKey(TheTable, l, "posts", r)

SpecTable == InitTable /\ [][NextTable]_vars

(***************************************************************************)
(* C4.  AddField with a field whose name is already in the table raises    *)
(* and leaves the table as it was: the field list, the name index and the  *)
(* primary key are unchanged, whatever mutations came before.              *)
(***************************************************************************)
C4_DuplicateFieldLeavesTable ==
  [][\A f \in FieldInputs :
       (AddField(TheTable, f) /\ f.name \in tbl[TheTable].field_name_dict)
         => /\ ret'.error # NoError
            /\ tbl'[TheTable].fields = tbl[TheTable].fields
            /\ tbl'[TheTable].field_name_dict = tbl[TheTable].field_name_dict
            /\ tbl'[TheTable].primary_key = tbl[TheTable].primary_key]_vars

\* a duplicate AddField was refused on a table that has fields and a primary key
C4_Witness ==
  /\ ret = Ret("AddField", "FieldExists")
  /\ Len(tbl[TheTable].fields) >= 1
  /\ tbl[TheTable].primary_key # NoPrimaryKey

(***************************************************************************)
(* C5.  A table holds at most one primary-key declaration: the fields      *)
(* flagged primary and a table-level primary key together number at most   *)
(* one, primary_key records it, and once a primary key exists every        *)
(* AddField of a primary-flagged field and every SetPrimaryKey raises and  *)
(* leaves the primary key and the field list unchanged.                    *)
(***************************************************************************)
PrimaryFields(t) == {i \in 1..Len(t.fields) : t.fields[i].is_primary}

PrimaryKeyDeclarations(t) ==
  Cardinality(PrimaryFields(t))
    + (IF t.primary_key.constraint_type = "table" THEN 1 ELSE 0)

C6_ForeignKeyValidated ==
  /\ [](\A i \in 1..Len(tbl[TheTable].foreign_keys) :
          LET fk == tbl[TheTable].foreign_keys[i] IN
            /\ Len(fk.local_columns) = Len(fk.ref_columns)
            /\ Range(fk.local_columns) \subseteq tbl[TheTable].field_name_dict)
  /\ [][\A l \in ColumnLists, r \in RefColumnLists :
          (/\ AddForeignKey(TheTable, l, "posts", r)
           /\ \/ Len(l) # Len(r)
              \/ ~(Range(l) \subseteq tbl[TheTable].field_name_dict))
            => /\ ret'.error # NoError
               /\ tbl'[TheTable].foreign_keys = tbl[TheTable].foreign_keys]_vars

\* a mismatched AddForeignKey was refused on a table that already holds one
C6_Witness ==
  /\ ret = Ret("AddForeignKey", "ColumnCountMismatch")
  /\ Len(tbl[TheTable].foreign_keys) = 1
  /\ Len(tbl[TheTable].foreign_keys[1].local_columns) >= 1

(***************************************************************************)
(* Index.GetCreateSQL: the statement, and the index with its name set      *)
(***************************************************************************)
RECURSIVE Join(_, _)
Join(strs, sep) ==
  IF Len(strs) = 0 THEN ""
  ELSE IF Len(strs) = 1 THEN strs[1]
  ELSE strs[1] \o sep \o Join(Tail(strs), sep)

\* f"idx_{table_name}_{col_names}"; the model's column names hold no space,
\* so col.replace(" ", "_") leaves them as they are
DerivedIndexName(table_name, columns) ==
  "idx_" \o table_name \o "_" \o Join(columns, "_")

Index_GetCreateSQL(index, table_name) ==
  LET name == IF index.name = None
                THEN DerivedIndexName(table_name, index.columns)
                ELSE index.name
      unique_clause == IF index.unique THEN "UNIQUE " ELSE ""
  IN [index |-> [index EXCEPT !.name = name],
      sql |-> "CREATE " \o unique_clause \o "INDEX IF NOT EXISTS " \o name
                \o " ON " \o table_name
                \o "(" \o Join(index.columns, ", ") \o ");"]

(***************************************************************************)
(* SQLTable.AddIndex                                                       *)
(***************************************************************************)
SQLTable_AddIndex(t, columns, unique, name) ==
  LET index == Index(columns, unique, name) IN
  IF \E i \in 1..Len(columns) : columns[i] \notin t.field_name_dict
    THEN Outcome(t, "ColumnMissing")
  ELSE IF \E i \in 1..Len(t.indexes) : t.indexes[i].name = index.name
    THEN Outcome(t, "IndexNameExists")
  ELSE Outcome([t EXCEPT !.indexes = Append(@, index)], NoError)

AddIndex(name, columns, unique, index_name) ==
  LET r == SQLTable_AddIndex(tbl[name], columns, unique, index_name) IN
    /\ tbl' = [tbl EXCEPT ![name] = r.table]
    /\ ret' = Ret("AddIndex", r.error)
    /\ UNCHANGED <<db, conn, file, live, issued, warnings, session, others>>

(***************************************************************************)
(* SQLTable.GetCreateIndexSQLs: renders every index, which names the       *)
(* unnamed ones                                                            *)
(***************************************************************************)
SQLTable_GetCreateIndexSQLs(t) ==
  [table |-> [t EXCEPT !.indexes =
                [i \in 1..Len(t.indexes) |->
                   Index_GetCreateSQL(t.indexes[i], t.name).index]],
   sqls |-> [i \in 1..Len(t.indexes) |->
               Index_GetCreateSQL(t.indexes[i], t.name).sql]]

GetCreateIndexSQLs(name) ==
  LET r == SQLTable_GetCreateIndexSQLs(tbl[name]) IN
    /\ tbl' = [tbl EXCEPT ![name] = r.table]
    /\ ret' = Returned("GetCreateIndexSQLs", r.sqls)
    /\ UNCHANGED <<db, conn, file, live, issued, warnings, session, others>>

(***************************************************************************)
(* Index.GetDropSQL and SQLTable.GetDropIndexSQLs: the name is written as  *)
(* it is stored, the text None for a name that is still None               *)
(***************************************************************************)
Index_GetDropSQL(index) == "DROP INDEX IF EXISTS " \o index.name \o ";"

SQLTable_GetDropIndexSQLs(t) ==
  [i \in 1..Len(t.indexes) |-> Index_GetDropSQL(t.indexes[i])]

GetDropIndexSQLs(name) ==
  /\ ret' = Returned("GetDropIndexSQLs", SQLTable_GetDropIndexSQLs(tbl[name]))
  /\ UNCHANGED <<tbl, db, conn, file, live, issued, warnings, session, others>>

(***************************************************************************)
(* SpecIndex: a table that has its fields, its indexes and their SQL.      *)
(***************************************************************************)
RECURSIVE WithFields(_, _)
\* the table after AddField of each of the fields, in order
WithFields(t, fields) ==
  IF Len(fields) = 0 THEN t
  ELSE WithFields(SQLTable_AddField(t, Head(fields)).table, Tail(fields))

IndexNames == {None, "ix", DerivedIndexName(TheTable, <<NameList[1]>>)}

InitIndex ==
  /\ tbl = [n \in TableNames |->
              IF n = TheTable
                THEN WithFields(SQLTable(n),
                       [i \in 1..NumFieldNames |->
                          SQLField(NameList[i], "INTEGER", FALSE, FALSE)])
                ELSE SQLTable(n)]
  /\ db = SQLDatabase
  /\ ret = Ret("init", NoError)
  /\ conn = "None"
  /\ file = FALSE
  /\ live = [n \in {} |-> <<>>]
  /\ issued = <<>>
  /\ warnings = <<>>
  /\ NoSession
  /\ NoOthers

NextIndex ==
  \/ \E c \in (ColumnLists \ {<<>>}) \cup {<<NameList[NumFieldNames + 1]>>},
        n \in IndexNames :
       /\ \/ Len(tbl[TheTable].indexes) < MaxIndexes
          \/ SQLTable_AddIndex(tbl[TheTable], c, FALSE, n).error # NoError
       /\ AddIndex(TheTable, c, FALSE, n)
  \/ GetCreateIndexSQLs(TheTable)
  \/ GetDropIndexSQLs(TheTable)

SpecIndex == InitIndex /\ [][NextIndex]_vars

(***************************************************************************)
(* C7.  After any interleaving of AddIndex and GetCreateIndexSQLs calls no *)
(* two indexes of the table have the same name, an unnamed index counting  *)
(* under its derived name idx_<table>_<columns>.                           *)
(***************************************************************************)
EffectiveIndexName(t, index) ==
  IF index.name = None THEN DerivedIndexName(t.name, index.columns)
  ELSE index.name

C7_UniqueIndexNames ==
  \A i, j \in 1..Len(tbl[TheTable].indexes) :
    i # j => EffectiveIndexName(tbl[TheTable], tbl[TheTable].indexes[i])
               # EffectiveIndexName(tbl[TheTable], tbl[TheTable].indexes[j])

(***************************************************************************)
(* C19.  An index added without a name is named idx_<table>_<columns> in   *)
(* every statement rendered for it: in every CREATE INDEX statement of     *)
(* GetCreateIndexSQLs and every DROP INDEX statement of GetDropIndexSQLs,  *)
(* in whichever order the two are called.  An index added without a name   *)
(* holds no name or, once it was rendered, the derived one.                *)
(***************************************************************************)
C19_DerivedNameInEveryStatement ==
  \A i \in 1..Len(tbl[TheTable].indexes) :
    LET index == tbl[TheTable].indexes[i]
        derived == DerivedIndexName(TheTable, index.columns)
    IN index.name \in {None, derived} =>
         /\ ret.op = "GetCreateIndexSQLs" =>
              Contains(ret.value[i],
                       "INDEX IF NOT EXISTS " \o derived \o " ON ")
         /\ ret.op = "GetDropIndexSQLs" =>
              ret.value[i] = "DROP INDEX IF EXISTS " \o derived \o ";"

(***************************************************************************)
(* SQLField.GetCreateStr and SQLTable.GetCreateTableSQL, for the           *)
(* attributes the model's fields and tables carry                          *)
(***************************************************************************)
\* mutant: the test for numbers is made before the tests for True and False
DefaultValueText_NumbersFirst(default) ==
  IF default = PyStr("CURRENT_TIMESTAMP") THEN "CURRENT_TIMESTAMP"
  ELSE IF default = PyStr("CURRENT_DATE") THEN "CURRENT_DATE"
  ELSE IF default = PyStr("CURRENT_TIME") THEN "CURRENT_TIME"
  ELSE IF IsInstance(default, "int") \/ IsInstance(default, "float")
    THEN StrOf(default)
  ELSE IF default = PyBool(TRUE) THEN "1"
  ELSE IF default = PyBool(FALSE) THEN "0"
  ELSE IF IsInstance(default, "str")
    THEN IF /\ Slice(default.text, 1, 1) = "("
            /\ Slice(default.text, Len(default.text), Len(default.text)) = ")"
           THEN default.text
           ELSE "'" \o replace(default.text, "'", "''") \o "'"
  ELSE StrOf(default)

\* the text GetCreateStr writes after DEFAULT, by the first rule that applies
DefaultValueText(default) ==
  IF default = PyStr("CURRENT_TIMESTAMP") THEN "CURRENT_TIMESTAMP"
  ELSE IF default = PyStr("CURRENT_DATE") THEN "CURRENT_DATE"
  ELSE IF default = PyStr("CURRENT_TIME") THEN "CURRENT_TIME"
  ELSE IF default = PyBool(TRUE) THEN "1"
  ELSE IF default = PyBool(FALSE) THEN "0"
  ELSE IF IsInstance(default, "int") \/ IsInstance(default, "float")
    THEN StrOf(default)
  ELSE IF IsInstance(default, "str")
    THEN IF /\ Slice(default.text, 1, 1) = "("
            /\ Slice(default.text, Len(default.text), Len(default.text)) = ")"
           THEN default.text
           ELSE "'" \o replace(default.text, "'", "''") \o "'"
  ELSE StrOf(default)

SQLField_GetCreateStr(field) ==
  LET subs == (IF field.is_primary THEN <<"PRIMARY KEY">> ELSE <<>>)
                \o (IF field.unique THEN <<"UNIQUE">> ELSE <<>>)
                \o (IF field.not_null THEN <<"NOT NULL">> ELSE <<>>)
                \o (IF field.default # PyNone
                      THEN <<"DEFAULT " \o DefaultValueText(field.default)>>
                      ELSE <<>>)
                \o (IF field.check # None /\ field.check # ""
                      THEN <<"CHECK (" \o field.check \o ")">>
                      ELSE <<>>)
  IN IF Len(subs) > 0 THEN field.data_type_str \o " " \o Join(subs, " ")
     ELSE field.data_type_str

(***************************************************************************)
(* UniqueConstraint, CheckConstraint, SQLTable.AddUniqueConstraint and     *)
(* SQLTable.AddCheckConstraint                                             *)
(***************************************************************************)
UniqueConstraint(columns, constraint_name) ==
  [columns |-> columns, constraint_name |-> constraint_name]

CheckConstraint(expression, constraint_name) ==
  [expression |-> expression, constraint_name |-> constraint_name]

\* f"CONSTRAINT {self.constraint_name} " if self.constraint_name else ""
NameClause(constraint_name) ==
  IF constraint_name # None /\ constraint_name # ""
    THEN "CONSTRAINT " \o constraint_name \o " " ELSE ""

UniqueConstraint_GetConstraintStr(uc) ==
  NameClause(uc.constraint_name)
    \o "UNIQUE (" \o Join(uc.columns, ", ") \o ")"

CheckConstraint_GetConstraintStr(cc) ==
  NameClause(cc.constraint_name) \o "CHECK (" \o cc.expression \o ")"

SQLTable_AddUniqueConstraint(t, columns, constraint_name) ==
  IF \E i \in 1..Len(columns) : columns[i] \notin t.field_name_dict
    THEN Outcome(t, "ColumnMissing")
  ELSE Outcome(
         [t EXCEPT !.unique_constraints =
            Append(@, UniqueConstraint(columns, constraint_name))],
         NoError)

SQLTable_AddCheckConstraint(t, expression, constraint_name) ==
  IF strip(expression) = ""
    THEN Outcome(t, "EmptyExpression")
  ELSE Outcome(
         [t EXCEPT !.check_constraints =
            Append(@, CheckConstraint(expression, constraint_name))],
         NoError)

AddUniqueConstraint(name, columns, constraint_name) ==
  LET r == SQLTable_AddUniqueConstraint(tbl[name], columns, constraint_name) IN
    /\ tbl' = [tbl EXCEPT ![name] = r.table]
    /\ ret' = Ret("AddUniqueConstraint", r.error)
    /\ UNCHANGED <<db, conn, file, live, issued, warnings, session, others>>

AddCheckConstraint(name, expression, constraint_name) ==
  LET r == SQLTable_AddCheckConstraint(tbl[name], expression, constraint_name) IN
    /\ tbl' = [tbl EXCEPT ![name] = r.table]
    /\ ret' = Ret("AddCheckConstraint", r.error)
    /\ UNCHANGED <<db, conn, file, live, issued, warnings, session, others>>

ForeignKey_GetConstraintStr(fk) ==
  "FOREIGN KEY (" \o Join(fk.local_columns, ", ") \o ") REFERENCES "
    \o fk.ref_table \o "(" \o Join(fk.ref_columns, ", ") \o ")"

PrimaryKeyConstraint_GetConstraintStr(pk) ==
  IF pk.constraint_type = "column" THEN ""
  ELSE "PRIMARY KEY (" \o Join(pk.columns, ", ") \o ")"

\* mutant: the primary key clause is written whatever the key's origin
SQLTable_GetCreateTableSQL_AnyPrimaryKey(t) ==
  LET field_defs == [i \in 1..Len(t.fields) |->
                       t.fields[i].name \o " "
                         \o SQLField_GetCreateStr(t.fields[i])]
      constraints ==
        (IF t.primary_key # NoPrimaryKey
           THEN <<"PRIMARY KEY (" \o Join(t.primary_key.columns, ", ") \o ")">>
           ELSE <<>>)
        \o [i \in 1..Len(t.unique_constraints) |->
              UniqueConstraint_GetConstraintStr(t.unique_constraints[i])]
        \o [i \in 1..Len(t.foreign_keys) |->
              ForeignKey_GetConstraintStr(t.foreign_keys[i])]
        \o [i \in 1..Len(t.check_constraints) |->
              CheckConstraint_GetConstraintStr(t.check_constraints[i])]
  IN "CREATE TABLE IF NOT EXISTS " \o t.name \o " (\n  "
       \o Join(field_defs \o constraints, ",\n  ") \o "\n);"

SQLTable_GetCreateTableSQL(t) ==
  LET field_defs == [i \in 1..Len(t.fields) |->
                       t.fields[i].name \o " "
                         \o SQLField_GetCreateStr(t.fields[i])]
      constraints ==
        (IF t.primary_key # NoPrimaryKey
              /\ t.primary_key.constraint_type = "table"
           THEN <<PrimaryKeyConstraint_GetConstraintStr(t.primary_key)>>
           ELSE <<>>)
        \o [i \in 1..Len(t.unique_constraints) |->
              UniqueConstraint_GetConstraintStr(t.unique_constraints[i])]
        \o [i \in 1..Len(t.foreign_keys) |->
              ForeignKey_GetConstraintStr(t.foreign_keys[i])]
        \o [i \in 1..Len(t.check_constraints) |->
              CheckConstraint_GetConstraintStr(t.check_constraints[i])]
  IN "CREATE TABLE IF NOT EXISTS " \o t.name \o " (\n  "
       \o Join(field_defs \o constraints, ",\n  ") \o "\n);"

\* a statement of a script or of a connection: its text, and what it acts on
Statement(kind, table, name, sql) ==
  [kind |-> kind, table |-> table, name |-> name, sql |-> sql]

CreateTableStatement(t) ==
  Statement("CREATE TABLE", t.name, "", SQLTable_GetCreateTableSQL(t))

\* the statements of GetCreateIndexSQLs, which names the unnamed indexes
CreateIndexStatements(t) ==
  LET r == SQLTable_GetCreateIndexSQLs(t) IN
    [i \in 1..Len(r.sqls) |->
       Statement("CREATE INDEX", t.name, r.table.indexes[i].name, r.sqls[i])]

(***************************************************************************)
(* SQLDatabase.AddTable                                                    *)
(***************************************************************************)
RECURSIVE RecordDependencies(_, _, _)
\* for fk in table.foreign_keys: graph[fk.ref_table].append(table.name)
RecordDependencies(graph, table_name, foreign_keys) ==
  IF Len(foreign_keys) = 0 THEN graph
  ELSE RecordDependencies(
         [graph EXCEPT ![Head(foreign_keys).ref_table] = Append(@, table_name)],
         table_name, Tail(foreign_keys))

\* mutant: only the foreign keys to tables already added are recorded
SQLDatabase_AddTable_KnownOnly(d, table) ==
  IF table.name \in d.table_name_dict
    THEN [db |-> d, error |-> "TableExists"]
  ELSE [db |-> [d EXCEPT
                  !.tables = Append(@, table.name),
                  !.table_name_dict = @ \cup {table.name},
                  !.foreign_key_graph =
                     RecordDependencies(@, table.name,
                       SelectSeq(table.foreign_keys,
                         LAMBDA fk : fk.ref_table \in d.table_name_dict))],
        error |-> NoError]

SQLDatabase_AddTable(d, table) ==
  IF table.name \in d.table_name_dict
    THEN [db |-> d, error |-> "TableExists"]
  ELSE [db |-> [d EXCEPT
                  !.tables = Append(@, table.name),
                  !.table_name_dict = @ \cup {table.name},
                  !.foreign_key_graph =
                     RecordDependencies(@, table.name, table.foreign_keys)],
        error |-> NoError]

(***************************************************************************)
(* SQLDatabase.CheckForeignKeyCycles: the depth-first search               *)
(***************************************************************************)
RECURSIVE dfs(_, _, _), dfsNeighbors(_, _, _, _)
\* st: the visited set, the recursion stack, and whether a cycle was found
dfs(graph, table_name, st) ==
  dfsNeighbors(graph, table_name, 1,
               [st EXCEPT !.visited = @ \cup {table_name},
                          !.rec_stack = @ \cup {table_name}])

dfsNeighbors(graph, table_name, i, st) ==
  IF i > Len(graph[table_name])
    THEN [st EXCEPT !.rec_stack = @ \ {table_name}]
  ELSE LET neighbor == graph[table_name][i] IN
    IF neighbor \notin st.visited
      THEN LET r == dfs(graph, neighbor, st) IN
             IF r.found THEN r
             ELSE dfsNeighbors(graph, table_name, i + 1, r)
    ELSE IF neighbor \in st.rec_stack
      THEN [st EXCEPT !.found = TRUE]
    ELSE dfsNeighbors(graph, table_name, i + 1, st)

RECURSIVE dfsRoots(_, _, _, _)
\* for table in self.tables: if table.name not in visited: if dfs(...)
dfsRoots(graph, tables, i, st) ==
  IF i > Len(tables) THEN FALSE
  ELSE IF tables[i] \notin st.visited
    THEN LET r == dfs(graph, tables[i], st) IN
           IF r.found THEN TRUE ELSE dfsRoots(graph, tables, i + 1, r)
  ELSE dfsRoots(graph, tables, i + 1, st)

\* mutant: only the first table is taken as a root of the search
SQLDatabase_CheckForeignKeyCycles_FirstRoot(d) ==
  dfsRoots(d.foreign_key_graph,
           IF Len(d.tables) = 0 THEN <<>> ELSE <<d.tables[1]>>, 1,
           [visited |-> {}, rec_stack |-> {}, found |-> FALSE])

SQLDatabase_CheckForeignKeyCycles(d) ==
  dfsRoots(d.foreign_key_graph, d.tables, 1,
           [visited |-> {}, rec_stack |-> {}, found |-> FALSE])

(***************************************************************************)
(* SQLDatabase.ValidateStructure                                           *)
(***************************************************************************)
SQLDatabase_ValidateStructure(d, tb) ==
  IF SQLDatabase_CheckForeignKeyCycles(d) THEN "ForeignKeyCycle"
  ELSE IF \E i \in 1..Len(d.tables) :
            \E k \in 1..Len(tb[d.tables[i]].foreign_keys) :
              tb[d.tables[i]].foreign_keys[k].ref_table \notin d.table_name_dict
    THEN "ForeignKeyRefMissing"
  ELSE NoError

(***************************************************************************)
(* SQLDatabase.GenerateSQLScript: the cycle check, Kahn's algorithm over   *)
(* the foreign keys the tables declare now, and the script                 *)
(***************************************************************************)
RECURSIVE BuildDependencies(_, _, _, _)
\* the loop over self.tables and their foreign_keys:
\*   dependency_graph[fk.ref_table].append(table.name); in_degree[table.name] += 1
BuildDependencies(tables, tb, i, acc) ==
  IF i > Len(tables) THEN acc
  ELSE LET name == tables[i]
           fks == tb[name].foreign_keys
       IN BuildDependencies(tables, tb, i + 1,
            [dependency_graph |->
               RecordDependencies(acc.dependency_graph, name, fks),
             in_degree |->
               [acc.in_degree EXCEPT ![name] = @ + Len(fks)]])

RECURSIVE ReduceInDegree(_, _, _, _)
\* for dependent in dependency_graph.get(table.name, []): ...
ReduceInDegree(d, dependents, in_degree, queue) ==
  IF Len(dependents) = 0 THEN [in_degree |-> in_degree, queue |-> queue]
  ELSE LET dependent == Head(dependents)
           reduced == [in_degree EXCEPT ![dependent] = @ - 1]
       IN ReduceInDegree(d, Tail(dependents), reduced,
            IF reduced[dependent] = 0 /\ dependent \in d.table_name_dict
              THEN Append(queue, dependent) ELSE queue)

RECURSIVE TopologicalSort(_, _, _, _, _)
\* while queue: table = queue.pop(0); sorted_tables.append(table); ...
TopologicalSort(d, dependency_graph, in_degree, queue, sorted_tables) ==
  IF Len(queue) = 0 THEN sorted_tables
  ELSE LET table == Head(queue)
           r == ReduceInDegree(d, dependency_graph[table], in_degree,
                               Tail(queue))
       IN TopologicalSort(d, dependency_graph, r.in_degree, r.queue,
                          Append(sorted_tables, table))

\* mutant: the script follows self.tables, not sorted_tables
SortedTables_InsertionOrder(d, tb) == d.tables

\* mutant: the tables the loop never dequeued are not appended
SortedTables_NoRemaining(d, tb) ==
  LET deps == BuildDependencies(d.tables, tb, 1,
                [dependency_graph |-> [n \in RefNames |-> <<>>],
                 in_degree |-> [n \in d.table_name_dict |-> 0]])
      queue == SelectSeq(d.tables, LAMBDA n : deps.in_degree[n] = 0)
  IN TopologicalSort(d, deps.dependency_graph, deps.in_degree, queue, <<>>)

\* sorted_tables of GenerateSQLScript, remaining tables appended
SortedTables(d, tb) ==
  LET deps == BuildDependencies(d.tables, tb, 1,
                [dependency_graph |-> [n \in RefNames |-> <<>>],
                 in_degree |-> [n \in d.table_name_dict |-> 0]])
      queue == SelectSeq(d.tables, LAMBDA n : deps.in_degree[n] = 0)
      sorted == TopologicalSort(d, deps.dependency_graph, deps.in_degree,
                                queue, <<>>)
      remaining == SelectSeq(d.tables, LAMBDA n : n \notin Range(sorted))
  IN sorted \o remaining

RECURSIVE Flatten(_)
Flatten(seqs) ==
  IF Len(seqs) = 0 THEN <<>> ELSE Head(seqs) \o Flatten(Tail(seqs))

\* the error raised, the list sql_script, and the tables after the index
\* rendering has named their unnamed indexes
SQLDatabase_GenerateSQLScript(d, tb) ==
  IF SQLDatabase_CheckForeignKeyCycles(d)
    THEN [error |-> "ForeignKeyCycle", sql_script |-> <<>>, tbl |-> tb]
  ELSE LET sorted_tables == SortedTables(d, tb) IN
    [error |-> NoError,
     sql_script |->
       [i \in 1..Len(sorted_tables) |-> CreateTableStatement(tb[sorted_tables[i]])]
       \o Flatten([i \in 1..Len(sorted_tables) |->
                     CreateIndexStatements(tb[sorted_tables[i]])]),
     tbl |-> [n \in DOMAIN tb |->
                IF n \in d.table_name_dict
                  THEN SQLTable_GetCreateIndexSQLs(tb[n]).table ELSE tb[n]]]

(***************************************************************************)
(* The calls on the database object, as actions                            *)
(***************************************************************************)
AddTable(name) ==
  LET r == SQLDatabase_AddTable(db, tbl[name]) IN
    /\ db' = r.db
    /\ ret' = Ret("AddTable", r.error)
    /\ UNCHANGED <<tbl, conn, file, live, issued, warnings, session, others>>

CheckForeignKeyCycles ==
  /\ ret' = Returned("CheckForeignKeyCycles",
                     <<SQLDatabase_CheckForeignKeyCycles(db)>>)
  /\ UNCHANGED <<tbl, db, conn, file, live, issued, warnings, session, others>>

ValidateStructure ==
  /\ ret' = Ret("ValidateStructure", SQLDatabase_ValidateStructure(db, tbl))
  /\ UNCHANGED <<tbl, db, conn, file, live, issued, warnings, session, others>>

GenerateSQLScript ==
  LET r == SQLDatabase_GenerateSQLScript(db, tbl) IN
    /\ tbl' = r.tbl
    /\ ret' = [op |-> "GenerateSQLScript", error |-> r.error,
               value |-> r.sql_script]
    /\ UNCHANGED <<db, conn, file, live, issued, warnings, session, others>>

(***************************************************************************)
(* SpecDB: tables with an indexed id column; foreign keys are declared on   *)
(* them before and after they are added to the database.                   *)
(***************************************************************************)
IdTable(n) ==
  WithFields(SQLTable(n), <<SQLField("id", "INTEGER", TRUE, FALSE)>>)

\* the same table with a named index on id
IndexedTable(n) == SQLTable_AddIndex(IdTable(n), <<"id">>, FALSE, "by_id").table

InitDB ==
  /\ tbl = [n \in TableNames |-> IndexedTable(n)]
  /\ db = SQLDatabase
  /\ ret = Ret("init", NoError)
  /\ conn = "None"
  /\ file = FALSE
  /\ live = [n \in {} |-> <<>>]
  /\ issued = <<>>
  /\ warnings = <<>>
  /\ NoSession
  /\ NoOthers

\* the foreign keys declared on the tables of the set S
DeclaredOn(S) ==
  {p \in S \X (1..MaxDbForeignKeys) : p[2] <= Len(tbl[p[1]].foreign_keys)}

\* the foreign keys declared on tables after they were added to the database
DeclaredLate ==
  Cardinality(DeclaredOn(db.table_name_dict))
    - Cardinality({p \in RefNames \X (1..MaxDbForeignKeys) :
                     p[2] <= Len(db.foreign_key_graph[p[1]])})

NextDB ==
  \/ \E n \in TableNames, ref \in RefNames :
       /\ Cardinality(DeclaredOn(TableNames)) < MaxDbForeignKeys
       /\ n \in db.table_name_dict => DeclaredLate < MaxLateForeignKeys
       /\ AddForeignKey(n, <<"id">>, ref, <<"id">>)
  \/ \E n \in TableNames : AddTable(n)
  \/ CheckForeignKeyCycles
  \/ ValidateStructure
  \/ GenerateSQLScript

SpecDB == InitDB /\ [][NextDB]_vars

(***************************************************************************)
(* The foreign keys the tables of the database declare, as a relation:     *)
(* <<t, r>> when table t of the database declares a foreign key to r.      *)
(***************************************************************************)
DeclaredEdges ==
  {e \in db.table_name_dict \X RefNames :
     \E k \in 1..Len(tbl[e[1]].foreign_keys) :
       tbl[e[1]].foreign_keys[k].ref_table = e[2]}

RECURSIVE ReachedWithin(_, _)
\* the names reached from the set S by one to n declared foreign keys
ReachedWithin(S, n) ==
  IF n = 0 THEN {}
  ELSE LET step == {e[2] : e \in {x \in DeclaredEdges : x[1] \in S}} IN
         step \cup ReachedWithin(step, n - 1)

DeclaredCycle ==
  \E t \in db.table_name_dict :
    t \in ReachedWithin({t}, Cardinality(TableNames))

FullyResolved == \A e \in DeclaredEdges : e[2] \in db.table_name_dict

\* every foreign key of a table of the database was declared before the
\* table was added: the table's name stands in the graph once per foreign key
BuiltByAddingTables ==
  \A t \in db.table_name_dict, r \in RefNames :
    Cardinality({k \in 1..Len(tbl[t].foreign_keys) :
                   tbl[t].foreign_keys[k].ref_table = r})
      = Cardinality({k \in 1..Len(db.foreign_key_graph[r]) :
                       db.foreign_key_graph[r][k] = t})

\* the places of table n's CREATE TABLE statements in a script
CreateTablePlaces(script, n) ==
  {i \in 1..Len(script) :
     script[i].kind = "CREATE TABLE" /\ script[i].table = n}

(***************************************************************************)
(* C1.  On a database whose declared foreign keys are acyclic and all      *)
(* resolved, whatever the order the tables were added in,                  *)
(* GenerateSQLScript returns a script in which each table is created       *)
(* strictly after every table one of its foreign keys references.          *)
(***************************************************************************)
C1_ReferencedTablesFirst ==
  (ret.op = "GenerateSQLScript" /\ ~DeclaredCycle /\ FullyResolved)
    => /\ ret.error = NoError
       /\ \A e \in DeclaredEdges :
            /\ CreateTablePlaces(ret.value, e[1]) # {}
            /\ CreateTablePlaces(ret.value, e[2]) # {}
            /\ \A i \in CreateTablePlaces(ret.value, e[2]),
                  j \in CreateTablePlaces(ret.value, e[1]) : i < j

\* a script was generated for a database in which a table with two foreign
\* keys was added before a table it references
C1_Witness ==
  /\ ret.op = "GenerateSQLScript"
  /\ ret.error = NoError
  /\ ~DeclaredCycle
  /\ FullyResolved
  /\ \E i, j \in 1..Len(db.tables) :
       /\ i < j
       /\ <<db.tables[i], db.tables[j]>> \in DeclaredEdges
       /\ Len(tbl[db.tables[i]].foreign_keys) = 2

(***************************************************************************)
(* C2.  On a database built by adding tables whose declared foreign keys   *)
(* contain a cycle (of any length, a self-reference included, in any       *)
(* component), CheckForeignKeyCycles returns true, ValidateStructure       *)
(* raises, and GenerateSQLScript raises and returns no SQL.                *)
(***************************************************************************)
C2_CycleRejected ==
  (DeclaredCycle /\ BuiltByAddingTables)
    => /\ ret.op = "CheckForeignKeyCycles" => ret.value = <<TRUE>>
       /\ ret.op = "ValidateStructure" => ret.error = "ForeignKeyCycle"
       /\ ret.op = "GenerateSQLScript"
            => ret.error = "ForeignKeyCycle" /\ ret.value = <<>>

\* GenerateSQLScript raised on a cycle that the first table has no part in
C2_Witness ==
  /\ ret.op = "GenerateSQLScript"
  /\ ret.error = "ForeignKeyCycle"
  /\ DeclaredCycle
  /\ BuiltByAddingTables
  /\ Len(db.tables) = Cardinality(TableNames)
  /\ \A e \in DeclaredEdges : db.tables[1] \notin {e[1], e[2]}

(***************************************************************************)
(* C3.  GenerateSQLScript runs the whole of ValidateStructure first: on a  *)
(* database in which a table declares a foreign key to a ref_table that is *)
(* not a table of the database, it raises instead of returning a script.   *)
(***************************************************************************)
C3_GenerateValidates ==
  (ret.op = "GenerateSQLScript" /\ ~FullyResolved) => ret.error # NoError

(***************************************************************************)
(* SQLite3Connector.  The connector holds a deep copy of the structure it  *)
(* was constructed with: in SpecConn db and tbl are that copy.  The live   *)
(* database maps each table name to its columns, and each column name to   *)
(* the type string PRAGMA table_info reports for it.                       *)
(***************************************************************************)
Path == "test.db"

\* str.upper() on the type strings of the model
Upper(str) == IF str = "integer" THEN "INTEGER" ELSE str

NoColumns == [c \in {} |-> ""]
EmptyDatabase == [n \in {} |-> NoColumns]

\* the function f extended or overwritten at key k
Put(f, k, v) == [x \in DOMAIN f \cup {k} |-> IF x = k THEN v ELSE f[x]]

\* the columns CREATE TABLE gives a table: each field's name and type
CreatedColumns(t) ==
  [c \in t.field_name_dict |->
     (CHOOSE f \in Range(t.fields) : f.name = c).data_type_str]

\* SQLite refuses ALTER TABLE ... ADD COLUMN for a UNIQUE or PRIMARY KEY
\* column ("Cannot add a UNIQUE column"): conn.execute raises
AddColumnRefused(field) == field.unique \/ field.is_primary

\* SQLite refuses a CREATE TABLE without a column definition (syntax error)
CreateTableRefused(t) == Len(t.fields) = 0

(***************************************************************************)
(* The sqlite3 connection.  A statement that changes rows opens a          *)
(* transaction when none is open; DDL runs in the open transaction, or,    *)
(* when none is open, takes effect in the file at once.  st.live and       *)
(* st.rows are what the connection sees, st.durable what the file holds.   *)
(***************************************************************************)
\* the connector's state at the start of a call
ConnState ==
  [live |-> live, issued |-> issued, warnings |-> warnings, tbl |-> tbl,
   error |-> NoError, rows |-> rows, durable |-> durable,
   in_transaction |-> in_transaction]

\* a DDL statement has run: outside a transaction it is in the file already
Autocommit(state) ==
  Bind(LAMBDA st :
    IF st.in_transaction THEN st
    ELSE [st EXCEPT !.durable = [live |-> st.live, rows |-> st.rows]],
    state)

\* conn.commit()
ConnCommit(state) ==
  Bind(LAMBDA st :
    [st EXCEPT !.durable = [live |-> st.live, rows |-> st.rows],
               !.in_transaction = FALSE],
    state)

\* conn.rollback()
ConnRollback(state) ==
  Bind(LAMBDA st :
    [st EXCEPT !.live = st.durable.live, !.rows = st.durable.rows,
               !.in_transaction = FALSE],
    state)

\* SQLite refuses a CREATE INDEX without a column (syntax error)
CreateIndexRefused(index) == Len(index.columns) = 0

(***************************************************************************)
(* SQLite3Connector._AddFieldToTable and the first loop of                 *)
(* _ValidateTableStructure.  st is the connector's state while the call    *)
(* runs: live, issued, warnings, tbl, and the error that is propagating.   *)
(***************************************************************************)
AddFieldToTable(table_name, field, st) ==
  LET query == Statement("ALTER TABLE ADD COLUMN", table_name, field.name,
                 "ALTER TABLE " \o table_name \o " ADD COLUMN " \o field.name
                   \o " " \o SQLField_GetCreateStr(field))
      sent == [st EXCEPT !.issued = Append(@, query)]
  IN IF AddColumnRefused(field)
       THEN [sent EXCEPT !.error = "OperationalError"]
       ELSE Autocommit([sent EXCEPT !.live =
               Put(@, table_name,
                   Put(@[table_name], field.name, field.data_type_str))])

RECURSIVE AddNewFields_All(_, _, _, _)
\* mutant: every declared field is added, present live or not
AddNewFields_All(table, i, existing_field_names, state) ==
  Bind(LAMBDA st :
    IF i > Len(table.fields) \/ st.error # NoError THEN st
    ELSE AddNewFields_All(table, i + 1, existing_field_names,
           AddFieldToTable(table.name, table.fields[i], st)),
    state)

RECURSIVE AddNewFields(_, _, _, _)
\* for field in table.fields: if field.name not in existing_field_names: ...
AddNewFields(table, i, existing_field_names, state) ==
  Bind(LAMBDA st :
    IF i > Len(table.fields) \/ st.error # NoError THEN st
    ELSE AddNewFields(table, i + 1, existing_field_names,
           IF table.fields[i].name \notin existing_field_names
             THEN AddFieldToTable(table.name, table.fields[i], st)
             ELSE st),
    state)

RECURSIVE CheckFieldTypes(_, _, _, _)
\* the second loop: a warning for each field whose live type differs
CheckFieldTypes(table, i, existing_fields, state) ==
  Bind(LAMBDA st :
    IF i > Len(table.fields) THEN st
    ELSE LET field == table.fields[i] IN
      CheckFieldTypes(table, i + 1, existing_fields,
        IF /\ field.name \in DOMAIN existing_fields
           /\ Upper(existing_fields[field.name]) # Upper(field.data_type_str)
          THEN [st EXCEPT !.warnings =
                  Append(@, [kind |-> "FieldTypeMismatch",
                             table |-> table.name, name |-> field.name])]
          ELSE st),
    state)

ValidateTableStructure(table, state) ==
  Bind(LAMBDA st :
    LET existing_fields == st.live[table.name]
        added == AddNewFields(table, 1, DOMAIN existing_fields, st)
    IN IF added.error # NoError THEN added
       ELSE CheckFieldTypes(table, 1, existing_fields, added),
    state)

(***************************************************************************)
(* SQLite3Connector._CreateTable: CREATE TABLE, the indexes, commit; an    *)
(* sqlite3.Error is logged and rolled back, and is not raised again.       *)
(***************************************************************************)
\* except sqlite3.Error: logger.error(...); self.conn.rollback()
CreateTableFailed(table, st) ==
  ConnRollback([st EXCEPT !.warnings =
                  Append(@, [kind |-> "CreateTableFailed",
                             table |-> table.name, name |-> ""])])

\* conn.execute(table.GetCreateTableSQL()), when SQLite accepts it
ExecuteCreateTable(table, st) ==
  Autocommit([st EXCEPT
    !.issued = Append(@, CreateTableStatement(table)),
    !.live = IF table.name \in DOMAIN @ THEN @
             ELSE Put(@, table.name, CreatedColumns(table))])

RECURSIVE ExecuteIndexes(_, _, _, _)
\* for index_sql in table.GetCreateIndexSQLs(): self.conn.execute(index_sql)
ExecuteIndexes(table, statements, i, state) ==
  Bind(LAMBDA st :
    IF i > Len(statements) THEN ConnCommit(st)
    ELSE LET sent == [st EXCEPT !.issued = Append(@, statements[i])] IN
      IF CreateIndexRefused(table.indexes[i]) THEN CreateTableFailed(table, sent)
      ELSE ExecuteIndexes(table, statements, i + 1, sent),
    state)

\* mutant: the table is created without its indexes
CreateTable_NoIndexes(table, state) ==
  Bind(LAMBDA st :
    IF CreateTableRefused(table)
      THEN CreateTableFailed(table,
             [st EXCEPT !.issued = Append(@, CreateTableStatement(table))])
    ELSE ConnCommit(ExecuteCreateTable(table, st)),
    state)

CreateTable(table, state) ==
  Bind(LAMBDA st :
    IF CreateTableRefused(table)
      THEN CreateTableFailed(table,
             [st EXCEPT !.issued = Append(@, CreateTableStatement(table))])
    ELSE LET created == ExecuteCreateTable(table, st)
             \* the list is rendered, and the index names derived, before the
             \* first index statement runs
             rendered == SQLTable_GetCreateIndexSQLs(table).table
         IN ExecuteIndexes(table, CreateIndexStatements(table), 1,
              [created EXCEPT !.tbl = [@ EXCEPT ![table.name] = rendered]]),
    state)

(***************************************************************************)
(* SQLite3Connector.TableValidation on a connected connector               *)
(***************************************************************************)
RECURSIVE CheckTables(_, _, _, _)
\* for table in self.structure.tables: validate it or create it
CheckTables(tables, i, existing_tables, state) ==
  Bind(LAMBDA st :
    IF i > Len(tables) \/ st.error # NoError THEN st
    ELSE LET table == st.tbl[tables[i]] IN
      CheckTables(tables, i + 1, existing_tables,
        IF table.name \in existing_tables
          THEN ValidateTableStructure(table, st)
          ELSE CreateTable(table, st)),
    state)

RECURSIVE SetToSeq(_)
SetToSeq(S) ==
  IF S = {} THEN <<>>
  ELSE LET x == CHOOSE y \in S : TRUE IN <<x>> \o SetToSeq(S \ {x})

SQLite3Connector_TableValidation(d, state) ==
  Bind(LAMBDA st :
    LET existing_tables == DOMAIN st.live
        checked == CheckTables(d.tables, 1, existing_tables, st)
        deprecated_tables ==
          SetToSeq((existing_tables \ Range(d.tables)) \ {"sqlite_sequence"})
    IN IF checked.error # NoError THEN checked
       ELSE [checked EXCEPT !.warnings =
               @ \o [i \in 1..Len(deprecated_tables) |->
                       [kind |-> "DeprecatedTable",
                        table |-> deprecated_tables[i], name |-> ""]]],
    state)

TableValidation ==
  IF conn = "None"
    THEN /\ warnings' = Append(warnings,
                          [kind |-> "NotConnected", table |-> "", name |-> ""])
         /\ ret' = Ret("TableValidation", NoError)
         /\ UNCHANGED <<tbl, db, conn, file, live, issued, session, others>>
  ELSE \E r \in {SQLite3Connector_TableValidation(db, ConnState)} :
          /\ live' = r.live
          /\ issued' = r.issued
          /\ warnings' = r.warnings
          /\ tbl' = r.tbl
          /\ rows' = r.rows
          /\ durable' = r.durable
          /\ in_transaction' = r.in_transaction
          /\ ret' = Ret("TableValidation", r.error)
          /\ UNCHANGED <<db, conn, file, commit_when_leave, others>>

(***************************************************************************)
(* SQLite3Connector.Connect and _InitializeNewDatabase                     *)
(***************************************************************************)
\* sqlite3.connect(path): opens the database file, and creates it, empty,
\* when there is none
Sqlite3Connect(exists, database) ==
  [file |-> TRUE, live |-> IF exists THEN database ELSE EmptyDatabase]

RECURSIVE ExecuteScript(_, _, _, _)
\* conn.executescript(script): the CREATE TABLE IF NOT EXISTS statements
\* create the tables that are missing; a refused statement raises
ExecuteScript(script, i, tb, database) ==
  IF i > Len(script) THEN [live |-> database, error |-> NoError]
  ELSE IF script[i].kind # "CREATE TABLE"
    THEN ExecuteScript(script, i + 1, tb, database)
  ELSE IF CreateTableRefused(tb[script[i].table])
    THEN [live |-> database, error |-> "OperationalError"]
  ELSE ExecuteScript(script, i + 1, tb,
         IF script[i].table \in DOMAIN database THEN database
         ELSE Put(database, script[i].table,
                  CreatedColumns(tb[script[i].table])))

InitializeNewDatabase(d, state) ==
  Bind(LAMBDA st :
    Bind(LAMBDA g :
      IF g.error # NoError THEN [st EXCEPT !.error = g.error]
      ELSE Bind(LAMBDA x :
             Bind(LAMBDA executed :
               IF x.error # NoError THEN executed ELSE ConnCommit(executed),
               Autocommit([st EXCEPT !.tbl = g.tbl,
                                     !.issued = @ \o g.sql_script,
                                     !.live = x.live,
                                     !.error = x.error])),
             ExecuteScript(g.sql_script, 1, g.tbl, st.live)),
      SQLDatabase_GenerateSQLScript(d, st.tbl)),
    state)

SQLite3Connector_Connect(d, exists, state) ==
  Bind(LAMBDA st :
    LET c == Sqlite3Connect(exists, st.live)
        enabled == [st EXCEPT
                      !.live = c.live,
                      !.rows = IF exists THEN @ ELSE 0,
                      !.durable = [live |-> c.live,
                                   rows |-> IF exists THEN @.rows ELSE 0],
                      !.issued = Append(@, Statement("PRAGMA", "", "",
                                             "PRAGMA foreign_keys = ON"))]
        \* os.path.exists(self.path), asked after sqlite3.connect returned
        path_exists == c.file
    IN [file |-> c.file,
        st |-> IF Path # ":memory:" /\ ~path_exists
                 THEN InitializeNewDatabase(d, enabled)
                 ELSE enabled],
    state)

\* the body of Connect, called as Connect or through __enter__
ConnectAs(op) ==
  IF conn # "None"
    THEN /\ ret' = Ret(op, NoError)
         /\ UNCHANGED <<tbl, db, conn, file, live, issued, warnings, session, others>>
  ELSE \E r \in {SQLite3Connector_Connect(db, file, ConnState)} :
          /\ conn' = "open"
          /\ file' = r.file
          /\ live' = r.st.live
          /\ issued' = r.st.issued
          /\ tbl' = r.st.tbl
          /\ rows' = r.st.rows
          /\ durable' = r.st.durable
          /\ in_transaction' = r.st.in_transaction
          /\ ret' = Ret(op, r.st.error)
          /\ UNCHANGED <<db, warnings, commit_when_leave, others>>

Connect == ConnectAs("Connect")

(***************************************************************************)
(* SQLite3Connector.Commit, Rollback and Close.  conn.close() drops what   *)
(* the connection has not committed.                                       *)
(***************************************************************************)
SQLite3Connector_Commit(st) == ConnCommit(st)

SQLite3Connector_Rollback(st) == ConnRollback(st)

\* mutant: Close commits whatever the policy
SQLite3Connector_Close_AlwaysCommit(st, policy) ==
  SQLite3Connector_Commit(st)

\* if self.commit_when_leave: self.Commit();  self.conn.close()
SQLite3Connector_Close(st, policy) ==
  ConnRollback(IF policy THEN SQLite3Connector_Commit(st) ELSE st)

\* the connection's state after a call that has left it as st
Connection(st) ==
  /\ live' = st.live
  /\ rows' = st.rows
  /\ durable' = st.durable
  /\ in_transaction' = st.in_transaction

Commit ==
  /\ IF conn = "None" THEN UNCHANGED <<live, rows, durable, in_transaction>>
     ELSE Connection(SQLite3Connector_Commit(ConnState))
  /\ ret' = Ret("Commit", NoError)
  /\ UNCHANGED <<tbl, db, conn, file, issued, warnings, commit_when_leave, others>>

Rollback ==
  /\ IF conn = "None" THEN UNCHANGED <<live, rows, durable, in_transaction>>
     ELSE Connection(SQLite3Connector_Rollback(ConnState))
  /\ ret' = Ret("Rollback", NoError)
  /\ UNCHANGED <<tbl, db, conn, file, issued, warnings, commit_when_leave, others>>

Close ==
  /\ IF conn = "None" THEN UNCHANGED <<live, rows, durable, in_transaction>>
     ELSE Connection(SQLite3Connector_Close(ConnState, commit_when_leave))
  /\ conn' = "None"
  /\ ret' = Ret("Close", NoError)
  /\ UNCHANGED <<tbl, db, file, issued, warnings, commit_when_leave, others>>

(***************************************************************************)
(* SpecConn: a connector constructed with a declared structure, at a path  *)
(* where there is no file or a database of some earlier schema.            *)
(***************************************************************************)
\* the declared users table: some of a INTEGER, b TEXT [UNIQUE], c integer
DeclaredUsers(names, b_unique) ==
  WithFields(SQLTable("users"),
    SelectSeq(<<SQLField("a", "INTEGER", FALSE, FALSE),
                SQLField("b", "TEXT", FALSE, b_unique),
                SQLField("c", "integer", FALSE, FALSE)>>,
              LAMBDA f : f.name \in names))

\* the declared posts table: id INTEGER PRIMARY KEY, and an unnamed index
DeclaredPosts == SQLTable_AddIndex(IdTable("posts"), <<"id">>, FALSE, None).table

RECURSIVE WithTables(_, _, _)
\* the database after AddTable of each of the named tables, in order
WithTables(d, tb, names) ==
  IF Len(names) = 0 THEN d
  ELSE WithTables(SQLDatabase_AddTable(d, tb[Head(names)]).db, tb, Tail(names))

DeclaredOrders == {<<"users">>, <<"users", "posts">>, <<"posts", "users">>}

\* the live users table of an earlier schema: a, of either type, maybe b, c
LiveUsers ==
  {[c \in {"a"} \cup more |->
      IF c = "a" THEN ta ELSE IF c = "b" THEN "TEXT" ELSE "INTEGER"] :
     ta \in {"INTEGER", "TEXT"}, more \in SUBSET {"b", "c"}}

LiveColumns(n) ==
  IF n = "users" THEN LiveUsers
  ELSE IF n = "posts" THEN {[c \in {"id"} |-> "INTEGER"]}
  ELSE IF n = "old" THEN {[c \in {"x"} |-> "TEXT"]}
  ELSE {[c \in {"name", "seq"} |-> ""]}

LiveDatabases ==
  UNION {{database \in [S -> UNION {LiveColumns(n) : n \in S}] :
            \A n \in S : database[n] \in LiveColumns(n)} :
         S \in SUBSET {"users", "posts", "old", "sqlite_sequence"}}

InitConn ==
  /\ \E names \in (SUBSET {"a", "b", "c"}) \ {{}}, b_unique \in BOOLEAN :
       /\ b_unique => "b" \in names
       /\ tbl = [n \in TableNames |->
                   IF n = "users" THEN DeclaredUsers(names, b_unique)
                   ELSE IF n = "posts" THEN DeclaredPosts
                   ELSE SQLTable(n)]
  /\ \E order \in DeclaredOrders : db = WithTables(SQLDatabase, tbl, order)
  /\ ret = Ret("init", NoError)
  /\ conn = "None"
  /\ file \in BOOLEAN
  /\ live \in (IF file THEN LiveDatabases ELSE {EmptyDatabase})
  /\ issued = <<>>
  /\ warnings = <<>>
  /\ NoSession
  /\ NoOthers

NextConn ==
  \/ Len(issued) + Len(warnings) < MaxLog /\ Connect
  \/ Len(issued) + Len(warnings) < MaxLog /\ TableValidation
  \/ conn # "None" /\ Close

SpecConn == InitConn /\ [][NextConn]_vars

\* the places in issued' of the statements the step has handed to the connection
NewStatements == (Len(issued) + 1)..Len(issued')
\* the places in warnings' of the warnings the step has logged
NewWarnings == (Len(warnings) + 1)..Len(warnings')

(***************************************************************************)
(* C8.  Connect at a path where no database file exists executes the       *)
(* structure's generated script, so that the declared tables exist         *)
(* afterwards; Connect at a path where the file exists runs no DDL; and    *)
(* Connect on a connected connector does nothing.                          *)
(***************************************************************************)
C8_ConnectInitialisesNewDatabase ==
  [][Connect =>
       /\ (conn = "None" /\ ~file)
            => \A n \in db.table_name_dict :
                 /\ n \in DOMAIN live'
                 /\ \E k \in NewStatements :
                      issued'[k].kind = "CREATE TABLE" /\ issued'[k].table = n
       /\ (conn = "None" /\ file)
            => /\ live' = live
               /\ \A k \in NewStatements : issued'[k].kind = "PRAGMA"
       /\ conn # "None"
            => UNCHANGED <<conn, file, live, issued, tbl>>]_vars

(***************************************************************************)
(* C9.  TableValidation on a connected connector, for a declared table     *)
(* that exists live: exactly one ALTER TABLE ... ADD COLUMN for each       *)
(* declared field absent from the live table, none for a field present     *)
(* live, no CREATE TABLE for the table, and for a declared field present   *)
(* live with a different upper-cased type exactly one warning.             *)
(***************************************************************************)
C9_MissingFieldsAdded ==
  [][(TableValidation /\ conn = "open") =>
       \A n \in Range(db.tables) \cap DOMAIN live :
         /\ \A k \in NewStatements :
              ~(issued'[k].kind = "CREATE TABLE" /\ issued'[k].table = n)
         /\ \A i \in 1..Len(tbl[n].fields) :
              LET field == tbl[n].fields[i]
                  alters == {k \in NewStatements :
                               /\ issued'[k].kind = "ALTER TABLE ADD COLUMN"
                               /\ issued'[k].table = n
                               /\ issued'[k].name = field.name}
                  mismatches == {k \in NewWarnings :
                                   /\ warnings'[k].kind = "FieldTypeMismatch"
                                   /\ warnings'[k].table = n
                                   /\ warnings'[k].name = field.name}
              IN /\ field.name \notin DOMAIN live[n] => Cardinality(alters) = 1
                 /\ field.name \in DOMAIN live[n] => alters = {}
                 /\ (/\ field.name \in DOMAIN live[n]
                     /\ Upper(live[n][field.name]) # Upper(field.data_type_str))
                      => Cardinality(mismatches) = 1]_vars

RefusedAt ==
  UNION {{<<p, i>> : i \in {j \in 1..Len(tbl[db.tables[p]].fields) :
                            LET t == tbl[db.tables[p]] IN
                              /\ t.name \in DOMAIN live
                              /\ t.fields[j].name \notin DOMAIN live[t.name]
                              /\ AddColumnRefused(t.fields[j])}}
           : p \in 1..Len(db.tables)}

\* the call has ended before it reaches field i of table p
EndedBefore(p, i) ==
  \E r \in RefusedAt : r[1] < p \/ (r[1] = p /\ r[2] < i)

(***************************************************************************)
(* C9, amended.  For a declared table that exists live, TableValidation    *)
(* on a connected connector issues no CREATE TABLE, no ALTER TABLE for a   *)
(* field present live, and exactly one ALTER TABLE ... ADD COLUMN for each *)
(* declared field absent live, in declared order, up to and including the  *)
(* first one that fails: that failure is raised to the caller and ends the *)
(* call.  A declared field present live with a different upper-cased type  *)
(* gets exactly one warning, unless the call has ended before the type     *)
(* check of its table.                                                     *)
(***************************************************************************)
C9_MissingFieldsAddedUntilRefused ==
  [][(TableValidation /\ conn = "open") =>
       /\ ret'.error # NoError <=> RefusedAt # {}
       /\ \A p \in 1..Len(db.tables) :
            LET n == db.tables[p] IN
            n \in DOMAIN live =>
              /\ \A k \in NewStatements :
                   ~(issued'[k].kind = "CREATE TABLE" /\ issued'[k].table = n)
              /\ \A i \in 1..Len(tbl[n].fields) :
                   LET field == tbl[n].fields[i]
                       alters ==
                         {k \in NewStatements :
                            /\ issued'[k].kind = "ALTER TABLE ADD COLUMN"
                            /\ issued'[k].table = n
                            /\ issued'[k].name = field.name}
                       mismatches ==
                         {k \in NewWarnings :
                            /\ warnings'[k].kind = "FieldTypeMismatch"
                            /\ warnings'[k].table = n
                            /\ warnings'[k].name = field.name}
                   IN /\ field.name \notin DOMAIN live[n]
                           => Cardinality(alters)
                                = (IF EndedBefore(p, i) THEN 0 ELSE 1)
                      /\ field.name \in DOMAIN live[n] => alters = {}
                      /\ (/\ field.name \in DOMAIN live[n]
                          /\ Upper(live[n][field.name])
                               # Upper(field.data_type_str))
                           => Cardinality(mismatches)
                                = (IF EndedBefore(p, Len(tbl[n].fields) + 1)
                                     THEN 0 ELSE 1)]_vars

\* TableValidation has returned after adding a column to a live table and
\* warning of a type mismatch in it
C9_Witness ==
  /\ ret = Ret("TableValidation", NoError)
  /\ \E k \in 1..Len(issued) :
       issued[k].kind = "ALTER TABLE ADD COLUMN" /\ issued[k].table = "users"
  /\ \E k \in 1..Len(warnings) :
       warnings[k].kind = "FieldTypeMismatch" /\ warnings[k].table = "users"

Execute ==
  IF conn = "None"
    THEN \* self.conn.cursor() on None
         /\ ret' = Ret("Execute", "AttributeError")
         /\ UNCHANGED <<tbl, db, conn, file, live, issued, warnings, session, others>>
  ELSE /\ issued' = Append(issued, Statement("INSERT", "", "",
                                     "INSERT INTO data VALUES (1)"))
       /\ rows' = rows + 1
       /\ in_transaction' = TRUE
       /\ ret' = Ret("Execute", NoError)
       /\ UNCHANGED <<tbl, db, conn, file, live, warnings,
                      commit_when_leave, durable, others>>

\* __enter__: self.Connect()
Enter == ConnectAs("__enter__")

\* __exit__(exc_type, ...): Rollback on an exception, Commit under the
\* policy otherwise, then Close; each of them skips a connector that is
\* not connected
Exit(exc_type) ==
  /\ IF conn = "None" THEN UNCHANGED <<live, rows, durable, in_transaction>>
     ELSE Connection(SQLite3Connector_Close(
            IF exc_type # None THEN SQLite3Connector_Rollback(ConnState)
            ELSE IF commit_when_leave THEN SQLite3Connector_Commit(ConnState)
            ELSE ConnState,
            commit_when_leave))
  /\ warnings' = IF exc_type # None
                   THEN Append(warnings, [kind |-> "ErrorOccurred",
                                          table |-> "", name |-> ""])
                   ELSE warnings
  /\ conn' = "None"
  /\ ret' = Ret("__exit__", NoError)
  /\ UNCHANGED <<tbl, db, file, issued, commit_when_leave, others>>

(***************************************************************************)
(* SpecSession: a connector used by a caller that inserts rows, commits,   *)
(* rolls back, validates and leaves.  The declared structure has a table   *)
(* whose DDL SQLite refuses: tags, with no field, or with an index on no   *)
(* column.                                                                 *)
(***************************************************************************)
RefusedTags ==
  {SQLTable("tags"), SQLTable_AddIndex(IdTable("tags"), <<>>, FALSE, None).table}

SessionOrders ==
  {<<"users">>, <<"tags">>, <<"tags", "posts">>, <<"users", "tags">>,
   <<"users", "tags", "posts">>}

InitSession ==
  /\ \E tags \in RefusedTags :
       tbl = [n \in TableNames |->
                IF n = "tags" THEN tags
                ELSE IF n = "posts" THEN DeclaredPosts
                ELSE IdTable(n)]
  /\ \E order \in SessionOrders : db = WithTables(SQLDatabase, tbl, order)
  /\ ret = Ret("init", NoError)
  /\ conn = "None"
  /\ file = TRUE
  /\ live \in {EmptyDatabase, [n \in {"users"} |-> [c \in {"id"} |-> "INTEGER"]]}
  /\ issued = <<>>
  /\ warnings = <<>>
  /\ commit_when_leave \in BOOLEAN
  /\ NoOthers
  /\ in_transaction = FALSE
  /\ rows = 0
  /\ durable = [live |-> live, rows |-> 0]

NextSession ==
  \/ Len(issued) + Len(warnings) < MaxLog /\ Connect
  \/ Len(issued) + Len(warnings) < MaxLog /\ Enter
  \/ Len(issued) + Len(warnings) < MaxLog /\ Execute
  \/ Len(issued) + Len(warnings) < MaxLog /\ TableValidation
  \/ Commit
  \/ Rollback
  \/ Close
  \/ \E exc_type \in {None, "RuntimeError"} :
       Len(issued) + Len(warnings) < MaxLog /\ Exit(exc_type)

SpecSession == InitSession /\ [][NextSession]_vars

\* SQLite refuses one of the statements _CreateTable issues for the table
CreationRefused(t) ==
  \/ CreateTableRefused(t)
  \/ \E i \in 1..Len(t.indexes) : CreateIndexRefused(t.indexes[i])

(***************************************************************************)
(* C11.  When the DDL of a declared table that is absent live fails in     *)
(* TableValidation: the error reaches the caller; the statements of that   *)
(* table are undone, so that the table is not left behind, and nothing     *)
(* else is undone: the rows the caller has inserted stay; the tables       *)
(* created earlier in the call are in the file; and the tables later in    *)
(* the declared order get their CREATE TABLE.                              *)
(***************************************************************************)
C11_FailedTableRolledBackAndSurfaced ==
  [][(TableValidation /\ conn = "open") =>
       \A p \in 1..Len(db.tables) :
         LET n == db.tables[p] IN
         (n \notin DOMAIN live /\ CreationRefused(tbl[n])) =>
           /\ ret'.error # NoError
           /\ n \notin DOMAIN live'
           /\ rows' = rows
           /\ \A q \in 1..(p - 1) :
                LET m == db.tables[q] IN
                (m \notin DOMAIN live /\ ~CreationRefused(tbl[m]))
                  => m \in DOMAIN durable'.live
           /\ \A q \in (p + 1)..Len(db.tables) :
                LET m == db.tables[q] IN
                m \notin DOMAIN live =>
                  \E k \in NewStatements :
                    issued'[k].kind = "CREATE TABLE" /\ issued'[k].table = m]_vars

\* what the connection sees, were it committed now
Pending == [live |-> live, rows |-> rows]

(***************************************************************************)
(* C12.  With commit_when_leave true, Close and a clean __exit__ commit    *)
(* what is pending before they close; with commit_when_leave false         *)
(* neither commits; an __exit__ with an exception rolls the pending        *)
(* changes back and never commits them, whatever the policy.  After each   *)
(* of them the connector is disconnected, and Close on a disconnected      *)
(* connector changes nothing.                                              *)
(***************************************************************************)
C12_CommitOnLeave ==
  [][/\ ((Close \/ Exit(None)) /\ conn = "open") =>
          /\ durable' = (IF commit_when_leave THEN Pending ELSE durable)
          /\ conn' = "None"
     /\ (Exit("RuntimeError") /\ conn = "open") =>
          /\ durable' = durable
          /\ conn' = "None"
     /\ (Close /\ conn = "None") =>
          UNCHANGED <<tbl, db, conn, file, live, issued, warnings, session, others>>]_vars

\* under the commit policy, an __exit__ with an exception has left the
\* connector disconnected and the inserted row out of the file
C12_Witness ==
  /\ ret = Ret("__exit__", NoError)
  /\ commit_when_leave
  /\ conn = "None"
  /\ Len(issued) = 2 /\ issued[2].kind = "INSERT"
  /\ Len(warnings) = 1 /\ warnings[1].kind = "ErrorOccurred"
  /\ durable.rows = 0

\* how many foreign keys to r the table t declares
DeclaredCount(t, r) ==
  Cardinality({k \in 1..Len(tbl[t].foreign_keys) :
                 tbl[t].foreign_keys[k].ref_table = r})

\* how many times the graph d holds the edge r -> t
RecordedCount(d, t, r) ==
  Cardinality({k \in 1..Len(d.foreign_key_graph[r]) :
                 d.foreign_key_graph[r][k] = t})

(***************************************************************************)
(* C13.  Forward references are tolerated.  AddForeignKey accepts any      *)
(* ref_table, a table of the database or not.  AddTable of a new table     *)
(* succeeds whatever its foreign keys name, and records the edge           *)
(* ref_table -> table.name once for each of them.  So a database whose     *)
(* foreign keys were all declared before the tables were added holds the   *)
(* edges its tables declare, whatever the order they were added in, and    *)
(* ValidateStructure accepts it when the references are resolved and       *)
(* acyclic.                                                                *)
(***************************************************************************)
C13_ForwardReferencesTolerated ==
  /\ [](/\ ret.op = "AddForeignKey" => ret.error = NoError
        /\ DeclaredLate = 0 =>
             /\ \A t \in db.table_name_dict, r \in RefNames :
                  RecordedCount(db, t, r) = DeclaredCount(t, r)
             /\ \A t \in TableNames \ db.table_name_dict, r \in RefNames :
                  RecordedCount(db, t, r) = 0
             /\ (ret.op = "ValidateStructure" /\ FullyResolved /\ ~DeclaredCycle)
                  => ret.error = NoError)
  /\ [][\A n \in TableNames \ db.table_name_dict :
          AddTable(n) =>
            /\ ret'.error = NoError
            /\ \A t \in TableNames, r \in RefNames :
                 RecordedCount(db', t, r)
                   = RecordedCount(db, t, r)
                       + (IF t = n THEN DeclaredCount(n, r) ELSE 0)]_vars

\* posts, which references users, was added before users, and
\* ValidateStructure has accepted the database
C13_Witness ==
  /\ ret = Ret("ValidateStructure", NoError)
  /\ db.tables = <<"posts", "users">>
  /\ DeclaredEdges = {<<"posts", "users">>}
  /\ db.foreign_key_graph["users"] = <<"posts">>

(***************************************************************************)
(* SQLTable._ParseFieldString.  The two regular expressions are searched   *)
(* as re.search does: the leftmost place where a match starts, \s+ and     *)
(* [^,\)]+ taking as much as they can, .+? as little as it can.            *)
(***************************************************************************)
RECURSIVE SpaceRun(_, _), ValueRun(_, _)
\* how many whitespace characters s holds from place i on
SpaceRun(s, i) ==
  IF i <= Len(s) /\ IsSpace(Char(s, i)) THEN 1 + SpaceRun(s, i + 1) ELSE 0
\* how many characters other than , and ) s holds from place i on
ValueRun(s, i) ==
  IF i <= Len(s) /\ Char(s, i) \notin {",", ")"}
    THEN 1 + ValueRun(s, i + 1) ELSE 0

NoMatch == [found |-> FALSE, match |-> "", first |-> 0, last |-> 0]

\* the match of DEFAULT\s+([^,\)]+) that starts at place p, where s reads
\* DEFAULT: when nothing but whitespace precedes the next , or ) the group
\* is the last whitespace character
DefaultMatchAt(s, p) ==
  LET q == p + Len("DEFAULT")
      w == SpaceRun(s, q)
      v == ValueRun(s, q + w)
  IN IF w >= 1 /\ v >= 1
       THEN [found |-> TRUE, match |-> SubSeq(s, p, q + w + v - 1),
             first |-> q + w, last |-> q + w + v - 1]
     ELSE IF w >= 2
       THEN [found |-> TRUE, match |-> SubSeq(s, p, q + w - 1),
             first |-> q + w - 1, last |-> q + w - 1]
     ELSE NoMatch

\* re.search(r"DEFAULT\s+([^,\)]+)", s)
DefaultSearch(s) ==
  LET P == {p \in Occurrences(s, "DEFAULT", 1) : DefaultMatchAt(s, p).found}
  IN IF P = {} THEN NoMatch ELSE DefaultMatchAt(s, Lowest(P))

\* the places where the ) may stand that ends a match of CHECK\s*\((.+?)\)
\* starting at place p
CheckEnds(s, p) ==
  LET q == p + Len("CHECK") + SpaceRun(s, p + Len("CHECK")) IN
    IF q > Len(s) \/ Char(s, q) # "(" THEN {}
    ELSE {e \in (q + 2)..Len(s) :
            /\ Char(s, e) = ")"
            /\ \A k \in (q + 1)..(e - 1) : Char(s, k) # "\n"}

\* re.search(r"CHECK\s*\((.+?)\)", s)
CheckSearch(s) ==
  LET P == {p \in Occurrences(s, "CHECK", 1) : CheckEnds(s, p) # {}} IN
    IF P = {} THEN NoMatch
    ELSE LET p == Lowest(P)
             e == Lowest(CheckEnds(s, p))
             q == p + Len("CHECK") + SpaceRun(s, p + Len("CHECK"))
         IN [found |-> TRUE, match |-> SubSeq(s, p, e),
             first |-> q + 1, last |-> e - 1]

SQLTable_ParseFieldString(type_str) ==
  LET normalized == upper(type_str)
      auto_increment == Contains(normalized, "AUTOINCREMENT")
      stripped == replace(replace(replace(replace(normalized,
                    "UNIQUE", ""), "NOT NULL", ""), "AUTOINCREMENT", ""),
                    "PRIMARY KEY", "")
      default_match == DefaultSearch(stripped)
      without_default ==
        IF default_match.found /\ default_match.match # ""
          THEN replace(stripped, default_match.match, "") ELSE stripped
      check_match == CheckSearch(without_default)
  IN [data_type |-> FirstWord(strip(type_str)),
      unique |-> Contains(normalized, "UNIQUE"),
      not_null |-> Contains(normalized, "NOT NULL"),
      auto_increment |-> auto_increment,
      is_primary |-> Contains(normalized, "PRIMARY KEY"),
      default |-> IF default_match.found
                    THEN PyStr(strip(SubSeq(stripped, default_match.first,
                                            default_match.last)))
                    ELSE PyNone,
      \* the expression is cut out of the original string at the places the
      \* match has in the normalized one
      check |-> IF check_match.found
                  THEN Slice(type_str, check_match.first, check_match.last)
                  ELSE None,
      error |-> IF auto_increment THEN "ValueError" ELSE NoError]

(***************************************************************************)
(* SQLTable.CreateFromDictV2, for a definition with a fields section:      *)
(* fields is the dictionary's items, each a field name and a type string.  *)
(***************************************************************************)
RECURSIVE CreateFields(_, _)
CreateFields(out, fields) ==
  IF Len(fields) = 0 \/ out.error # NoError THEN out
  ELSE LET params == SQLTable_ParseFieldString(Head(fields).type_str) IN
    IF params.error # NoError THEN Outcome(out.table, params.error)
    ELSE CreateFields(
           SQLTable_AddField(out.table,
             SQLField_init(Head(fields).name, params.data_type,
                           params.is_primary, params.unique, params.not_null,
                           params.default, params.check)),
           Tail(fields))

SQLTable_CreateFromDictV2(name, fields) ==
  CreateFields(Outcome(SQLTable(name), NoError), fields)

(***************************************************************************)
(* SpecParse: a table is built from a dictionary definition of one field,  *)
(* the field is rendered, and type strings and the rendered column         *)
(* definition are parsed.  The type strings are put together from a data   *)
(* type, constraint tokens, a DEFAULT value and a CHECK expression.        *)
(***************************************************************************)
DataTypes == {"TEXT", "integer"}

TokenLists ==
  {SelectSeq(<<"PRIMARY KEY", "UNIQUE", "NOT NULL">>, LAMBDA t : t \in S) :
     S \in SUBSET {"PRIMARY KEY", "UNIQUE", "NOT NULL"}}

\* DEFAULT values as written; "" stands for no DEFAULT clause
DefaultValues ==
  {"", "5", "CURRENT_TIMESTAMP", "'abc'", "'it''s unique'", "'NOT NULL'",
   "'a primary key'"}

\* CHECK expressions as written; "" stands for no CHECK clause
CheckExpressions == {"", "x > 0"}

TypeString(data_type, tokens, default, check) ==
  Join(<<data_type>> \o tokens
         \o (IF default = "" THEN <<>> ELSE <<"DEFAULT " \o default>>)
         \o (IF check = "" THEN <<>> ELSE <<"CHECK (" \o check \o ")">>),
       " ")

\* the type strings offered: every token list on each data type, each
\* DEFAULT value and each CHECK expression on its own, and some together
TypeStrings ==
  {TypeString(dt, tokens, "", "") : dt \in DataTypes, tokens \in TokenLists}
    \cup {TypeString("TEXT", <<>>, d, "") : d \in DefaultValues}
    \cup {TypeString("integer", tokens, "", c) :
            tokens \in {<<>>, <<"UNIQUE">>}, c \in CheckExpressions}
    \cup {TypeString("integer", <<"NOT NULL">>, "5", "x > 0"),
          "INTEGER PRIMARY KEY AUTOINCREMENT"}

CreateFromDictV2(name, fields) ==
  LET r == SQLTable_CreateFromDictV2(name, fields) IN
    /\ tbl' = IF r.error = NoError THEN [tbl EXCEPT ![name] = r.table] ELSE tbl
    /\ ret' = Ret("CreateFromDictV2", r.error)
    /\ UNCHANGED <<db, conn, file, live, issued, warnings, session, others>>

GetCreateStr(name, i) ==
  /\ i <= Len(tbl[name].fields)
  /\ ret' = Returned("GetCreateStr", SQLField_GetCreateStr(tbl[name].fields[i]))
  /\ UNCHANGED <<tbl, db, conn, file, live, issued, warnings, session, others>>

\* the outcome is kept with the string that was parsed
ParseFieldString(type_str) ==
  LET params == SQLTable_ParseFieldString(type_str) IN
    /\ ret' = [op |-> "_ParseFieldString", error |-> params.error,
               value |-> params, type_str |-> type_str]
    /\ UNCHANGED <<tbl, db, conn, file, live, issued, warnings, session, others>>

\* the rendered column definition is parsed again
ParseRendered == ret.op = "GetCreateStr" /\ ParseFieldString(ret.value)

InitParse == InitTable

NextParse ==
  \/ \E type_str \in TypeStrings :
       CreateFromDictV2(TheTable, <<[name |-> "f", type_str |-> type_str]>>)
  \/ GetCreateStr(TheTable, 1)
  \/ \E type_str \in TypeStrings : ParseFieldString(type_str)
  \/ ParseRendered

SpecParse == InitParse /\ [][NextParse]_vars

(***************************************************************************)
(* C14.  Round trip of the field flags: when the field of a table built by *)
(* CreateFromDictV2 is rendered with GetCreateStr and the rendered column  *)
(* definition is parsed again, the parse yields the unique, not-null,      *)
(* primary, default and check values of the first parse, which are the     *)
(* ones the field was built with.                                          *)
(***************************************************************************)
C14_FlagsRoundTrip ==
  [][ParseRendered =>
       LET field == tbl[TheTable].fields[1] IN
         /\ ret'.error = NoError
         /\ ret'.value.unique = field.unique
         /\ ret'.value.not_null = field.not_null
         /\ ret'.value.is_primary = field.is_primary
         /\ ret'.value.default = field.default
         /\ ret'.value.check = field.check]_vars

\* the DEFAULT values that hold a keyword-like substring
KeywordDefaults ==
  {d \in DefaultValues :
     \E token \in {"UNIQUE", "NOT NULL", "PRIMARY KEY"} :
       Contains(upper(d), token)}

(***************************************************************************)
(* C15.  A DEFAULT value does not influence the flags: for a type string   *)
(* with no constraint token, whose DEFAULT value holds a keyword-like      *)
(* substring, the parsed unique, not_null and is_primary are false and     *)
(* the parsed default is the value as written.                             *)
(***************************************************************************)
C15_DefaultContentIgnored ==
  [][\A dt \in DataTypes, d \in KeywordDefaults :
       ParseFieldString(TypeString(dt, <<>>, d, "")) =>
         /\ ~ret'.value.unique
         /\ ~ret'.value.not_null
         /\ ~ret'.value.is_primary
         /\ ret'.value.default = PyStr(d)]_vars

(***************************************************************************)
(* SQLField.GetClass and SQLField.ValidateValue.  data_class is set once,  *)
(* by __init__, from data_type_str and nothing assigns either of them      *)
(* later, so it is read here from data_type_str.                           *)
(***************************************************************************)
SQLField_GetClass(s) ==
  LET s_up == upper(s) IN
    CASE s_up \in {"INT", "INTEGER", "TINYINT", "SMALLINT", "MEDIUMINT",
                   "BIGINT"} -> "int"
      [] s_up \in {"TEXT", "VARCHAR", "CHAR", "CLOB"} -> "str"
      [] s_up \in {"REAL", "DOUBLE", "FLOAT", "NUMERIC", "DECIMAL"} -> "float"
      [] s_up = "BLOB" -> "bytes"
      [] s_up = "BOOLEAN" -> "bool"
      [] s_up = "DATE" -> "date"
      [] s_up = "DATETIME" -> "datetime"
      [] OTHER -> None

\* the classes a value of the field's data_class may be an instance of
ExpectedType(data_class) ==
  CASE data_class = "int" -> {"int"}
    [] data_class = "str" -> {"str"}
    [] data_class = "float" -> {"float", "int"}
    [] data_class = "bytes" -> {"bytes"}
    [] data_class = "bool" -> {"bool"}
    [] data_class = "date" -> {"date"}
    [] data_class = "datetime" -> {"datetime"}
    [] OTHER -> {"object"}

\* the error ValidateValue raises, NoError when it returns
SQLField_ValidateValue(field, value) ==
  IF value = PyNone
    THEN IF field.not_null THEN "ValueError" ELSE NoError
  ELSE IF ~\E cls \in ExpectedType(SQLField_GetClass(field.data_type_str)) :
             IsInstance(value, cls)
    THEN "TypeError"
  ELSE NoError

\* the outcome is kept with the value that was offered
ValidateValue(name, i, value) ==
  /\ i <= Len(tbl[name].fields)
  /\ ret' = [op |-> "ValidateValue",
             error |-> SQLField_ValidateValue(tbl[name].fields[i], value),
             value |-> <<>>, offered |-> value]
  /\ UNCHANGED <<tbl, db, conn, file, live, issued, warnings, session, others>>

(***************************************************************************)
(* SpecField: a field is constructed with SQLField(...) and added to a     *)
(* fresh table, then rendered and offered values.                          *)
(***************************************************************************)
FieldTypes ==
  {"INTEGER", "integer", "TEXT", "REAL", "BLOB", "BOOLEAN", "DATE",
   "DATETIME", "JSON"}

Defaults ==
  {PyStr("CURRENT_TIMESTAMP"), PyStr("CURRENT_DATE"), PyStr("CURRENT_TIME"),
   PyBool(TRUE), PyBool(FALSE), PyInt(1), PyInt(0), PyInt(25), PyInt(-3),
   PyFloat(15), PyStr("(1+2)"), PyStr("hello's"), PyStr("("), PyStr(""),
   PyBytes("ab"), PyDate("2020-01-02")}

\* every type with every flag, and every default on two of the types
ConstructedFields ==
  {SQLField_init("f", t, p, FALSE, n, PyNone, None) :
     t \in FieldTypes, p \in BOOLEAN, n \in BOOLEAN}
    \cup {SQLField_init("f", t, FALSE, FALSE, FALSE, d, None) :
            t \in {"BOOLEAN", "TEXT"}, d \in Defaults}

Values ==
  {PyNone, PyBool(TRUE), PyInt(5), PyFloat(15), PyStr("abc"), PyBytes("ab"),
   PyDate("2020-01-02"), PyDatetime("2020-01-02 03:04:05")}

InitField == InitTable

NextField ==
  \/ \E f \in ConstructedFields : AddField(TheTable, f)
  \/ GetCreateStr(TheTable, 1)
  \/ \E v \in Values : ValidateValue(TheTable, 1, v)

SpecField == InitField /\ [][NextField]_vars

\* the field of SpecField's table
TheField == tbl[TheTable].fields[1]

\* what a rendered column definition holds after the word DEFAULT
DefaultClause(s) == SubSeq(s, find(s, "DEFAULT ") + Len("DEFAULT "), Len(s))

(***************************************************************************)
(* C16.  GetCreateStr renders a default by the first rule that matches:    *)
(* CURRENT_TIMESTAMP, CURRENT_DATE and CURRENT_TIME as they are and        *)
(* unquoted, True and False as 1 and 0, integers and reals as their        *)
(* decimal text, a string in parentheses as it is, any other string in     *)
(* single quotes with every quote doubled, any other value by str().  A    *)
(* None default renders no DEFAULT clause.                                 *)
(***************************************************************************)
C16_DefaultRendering ==
  ret.op = "GetCreateStr" =>
    LET default == TheField.default
        text == DefaultClause(ret.value)
        keyword ==
          /\ default.type = "str"
          /\ default.text \in {"CURRENT_TIMESTAMP", "CURRENT_DATE",
                               "CURRENT_TIME"}
        wrapped ==
          /\ default.type = "str"
          /\ Len(default.text) > 0
          /\ Char(default.text, 1) = "("
          /\ Char(default.text, Len(default.text)) = ")"
    IN IF default = PyNone THEN ~Contains(ret.value, "DEFAULT")
       ELSE /\ Contains(ret.value, "DEFAULT ")
            /\ keyword => text = default.text
            /\ default.type = "bool" =>
                 text = (IF default = PyBool(TRUE) THEN "1" ELSE "0")
            /\ default.type = "int" => text = IntToStr(default.int)
            /\ default.type = "float" => text = StrOf(default)
            /\ wrapped => text = default.text
            /\ default.type = "str" /\ ~keyword /\ ~wrapped =>
                 text = "'" \o replace(default.text, "'", "''") \o "'"
            /\ default.type \notin {"str", "bool", "int", "float"} =>
                 text = StrOf(default)

\* True, which is an integer too, has been rendered as 1
C16_Witness ==
  /\ ret = Returned("GetCreateStr", "BOOLEAN DEFAULT 1")
  /\ TheField.default = PyBool(TRUE)

(***************************************************************************)
(* C17.  The column definition GetCreateStr renders for a field marked as  *)
(* primary key declares the column NOT NULL, whatever the field's          *)
(* not_null flag.                                                          *)
(***************************************************************************)
C17_PrimaryKeyNotNull ==
  (ret.op = "GetCreateStr" /\ TheField.is_primary) =>
    Contains(ret.value, "NOT NULL")

(***************************************************************************)
(* C18.  ValidateValue rejects None exactly when the field is not_null,    *)
(* and rejects a value other than None exactly when GetClass knows the     *)
(* field's type and the value's own type is another one.                   *)
(***************************************************************************)
C18_ValidateValueByKind ==
  ret.op = "ValidateValue" =>
    LET data_class == SQLField_GetClass(TheField.data_type_str) IN
      (ret.error # NoError) <=>
        IF ret.offered = PyNone THEN TheField.not_null
        ELSE data_class # None /\ ret.offered.type # data_class

(***************************************************************************)
(* SQLTable.GetCreateTableSQL, as a call                                   *)
(***************************************************************************)
GetCreateTableSQL(name) ==
  /\ ret' = Returned("GetCreateTableSQL", SQLTable_GetCreateTableSQL(tbl[name]))
  /\ UNCHANGED <<tbl, db, conn, file, live, issued, warnings, session, others>>

(***************************************************************************)
(* SpecCreate: a table gets its fields, its primary key at field level or  *)
(* at table level, and its constraints, and is rendered.                   *)
(***************************************************************************)
CreateFieldInputs ==
  {SQLField("a", "INTEGER", p, FALSE) : p \in BOOLEAN}
    \cup {SQLField("b", "TEXT", FALSE, FALSE)}

InitCreate == InitTable

NextCreate ==
  \/ \E f \in CreateFieldInputs : AddField(TheTable, f)
  \/ \E c \in {<<"a">>, <<"a", "b">>} : SetPrimaryKey(TheTable, c)
  \/ \E c \in {<<"b">>, <<"a", "b">>}, n \in {None, "uq"} :
       /\ \/ Len(tbl[TheTable].unique_constraints) < MaxUniqueConstraints
          \/ SQLTable_AddUniqueConstraint(tbl[TheTable], c, n).error # NoError
       /\ AddUniqueConstraint(TheTable, c, n)
  \/ /\ \/ Len(tbl[TheTable].foreign_keys) < MaxForeignKeys
        \/ SQLTable_AddForeignKey(tbl[TheTable], <<"a">>, "posts",
                                  <<"id">>).error # NoError
     /\ AddForeignKey(TheTable, <<"a">>, "posts", <<"id">>)
  \/ \E e \in {"a > 0", " "} :
       /\ \/ Len(tbl[TheTable].check_constraints) < MaxCheckConstraints
          \/ SQLTable_AddCheckConstraint(tbl[TheTable], e, None).error # NoError
       /\ AddCheckConstraint(TheTable, e, None)
  \/ GetCreateTableSQL(TheTable)

SpecCreate == InitCreate /\ [][NextCreate]_vars

RECURSIVE Split(_, _)
\* the parts of s between the occurrences of sep
Split(s, sep) ==
  IF find(s, sep) = 0 THEN <<s>>
  ELSE <<SubSeq(s, 1, find(s, sep) - 1)>>
         \o Split(SubSeq(s, find(s, sep) + Len(sep), Len(s)), sep)

\* the definitions a CREATE TABLE statement of table name lists, in order
Definitions(sql, name) ==
  LET inner == SubSeq(sql, Len("CREATE TABLE IF NOT EXISTS " \o name \o " (\n  ") + 1,
                      Len(sql) - Len("\n);"))
  IN IF inner = "" THEN <<>> ELSE Split(inner, ",\n  ")

StartsWith(s, prefix) == Slice(s, 1, Len(prefix)) = prefix

(***************************************************************************)
(* C20.  GetCreateTableSQL lists the fields in insertion order, then the   *)
(* primary key, then the unique constraints, then the foreign keys, then   *)
(* the check constraints.  A PRIMARY KEY (...) clause is listed exactly    *)
(* when the primary key was set at table level: a primary key that comes   *)
(* from a field's flag is written in that field's definition only.         *)
(***************************************************************************)
C20_DefinitionOrder ==
  ret.op = "GetCreateTableSQL" =>
    LET t == tbl[TheTable]
        defs == Definitions(ret.value, t.name)
        table_level ==
          t.primary_key # NoPrimaryKey /\ t.primary_key.constraint_type = "table"
        nf == Len(t.fields)
        np == nf + (IF table_level THEN 1 ELSE 0)
        nu == np + Len(t.unique_constraints)
        nk == nu + Len(t.foreign_keys)
    IN /\ Len(defs) = nk + Len(t.check_constraints)
       /\ \A i \in 1..nf :
            /\ StartsWith(defs[i], t.fields[i].name \o " ")
            /\ Contains(defs[i], "PRIMARY KEY") <=> t.fields[i].is_primary
       /\ table_level =>
            defs[np] = "PRIMARY KEY (" \o Join(t.primary_key.columns, ", ") \o ")"
       /\ \A i \in 1..Len(defs) :
            StartsWith(defs[i], "PRIMARY KEY (") => (table_level /\ i = np)
       /\ \A i \in 1..Len(t.unique_constraints) :
            defs[np + i] = UniqueConstraint_GetConstraintStr(t.unique_constraints[i])
       /\ \A i \in 1..Len(t.foreign_keys) :
            defs[nu + i] = ForeignKey_GetConstraintStr(t.foreign_keys[i])
       /\ \A i \in 1..Len(t.check_constraints) :
            defs[nk + i] = CheckConstraint_GetConstraintStr(t.check_constraints[i])

\* a table with a field-level primary key and one constraint of each kind
\* has been rendered
C20_Witness ==
  /\ ret.op = "GetCreateTableSQL"
  /\ tbl[TheTable].primary_key = PrimaryKeyConstraint(<<"a">>, "column")
  /\ Len(tbl[TheTable].fields) = 2
  /\ Len(tbl[TheTable].unique_constraints) = 1
  /\ Len(tbl[TheTable].foreign_keys) = 1
  /\ Len(tbl[TheTable].check_constraints) = 1
  /\ Len(Definitions(ret.value, TheTable)) = 5

(***************************************************************************)
(* SQLDatabase.CreateFromDictV2 and GenerateSQLDatabase: a database built  *)
(* in one call from a description of its tables.  A description lists the  *)
(* tables in order; each table has the field id and one foreign key on id  *)
(* for every name in its list refs.                                        *)
(***************************************************************************)
MaxDefForeignKeys == 1

RefLists == UNION {[1..k -> RefNames] : k \in 0..MaxDefForeignKeys}

\* the orders in which a description can list distinct tables
TableOrders ==
  {o \in UNION {[1..k -> TableNames] : k \in 1..Cardinality(TableNames)} :
     \A i, j \in 1..Len(o) : o[i] = o[j] => i = j}

DatabaseDefs ==
  UNION {{[i \in 1..Len(o) |-> [name |-> o[i], refs |-> r[o[i]]]] :
            r \in [Range(o) -> RefLists]} : o \in TableOrders}

RECURSIVE AddForeignKeys(_, _)
\* for fk_def in constraints["foreign_keys"]: table.AddForeignKey(...)
AddForeignKeys(out, refs) ==
  IF Len(refs) = 0 \/ out.error # NoError THEN out
  ELSE AddForeignKeys(
         SQLTable_AddForeignKey(out.table, <<"id">>, Head(refs), <<"id">>),
         Tail(refs))

\* SQLTable.CreateFromDictV2(table_name, table_def) for one entry of a
\* description
TableFromDef(table_def) ==
  AddForeignKeys(
    SQLTable_CreateFromDictV2(table_def.name,
      <<[name |-> "id", type_str |-> "INTEGER PRIMARY KEY"]>>),
    table_def.refs)

RECURSIVE AddTables(_, _)
\* the tables of the description, built and added one by one; st is the
\* database so far, the table objects so far and the error raised
AddTables(st, defs) ==
  IF Len(defs) = 0 \/ st.error # NoError THEN st
  ELSE Bind(LAMBDA t :
         IF t.error # NoError THEN [st EXCEPT !.error = t.error]
         ELSE Bind(LAMBDA r :
                AddTables([db |-> r.db,
                           tbl |-> [st.tbl EXCEPT ![t.table.name] = t.table],
                           error |-> r.error],
                          Tail(defs)),
                SQLDatabase_AddTable(st.db, t.table)),
         TableFromDef(Head(defs)))

\* for table in db.tables: for fk in table.foreign_keys:
\*   if fk.ref_table not in db.table_name_dict: raise ValueError
ReferencesMissingTable(d, tb) ==
  \E i \in 1..Len(d.tables) :
    \E k \in 1..Len(tb[d.tables[i]].foreign_keys) :
      tb[d.tables[i]].foreign_keys[k].ref_table \notin d.table_name_dict

SQLDatabase_CreateFromDictV2(db_def, tb) ==
  Bind(LAMBDA st :
         IF st.error # NoError THEN st
         ELSE IF ReferencesMissingTable(st.db, st.tbl)
           THEN [st EXCEPT !.error = "ForeignKeyRefMissing"]
         ELSE st,
       AddTables([db |-> SQLDatabase, tbl |-> tb, error |-> NoError], db_def))

GenerateSQLDatabase_Build(models, tb) ==
  Bind(LAMBDA st :
         IF st.error # NoError THEN st
         ELSE IF ReferencesMissingTable(st.db, st.tbl)
           THEN [st EXCEPT !.error = "ForeignKeyRefMissing"]
         ELSE IF SQLDatabase_CheckForeignKeyCycles(st.db)
           THEN [st EXCEPT !.error = "ForeignKeyCycle"]
         ELSE st,
       AddTables([db |-> SQLDatabase, tbl |-> tb, error |-> NoError], models))

\* a call that raises returns no database: the program holds none
\* (the empty SQLDatabase() stands for it) and the freshly made tables are lost
DatabaseCreateFromDictV2(db_def) ==
  \E r \in {SQLDatabase_CreateFromDictV2(db_def,
                                         [n \in TableNames |-> SQLTable(n)])} :
    /\ db' = IF r.error = NoError THEN r.db ELSE SQLDatabase
    /\ tbl' = IF r.error = NoError THEN r.tbl
              ELSE [n \in TableNames |-> SQLTable(n)]
    /\ ret' = [op |-> "SQLDatabase.CreateFromDictV2", error |-> r.error,
               value |-> <<>>, db_def |-> db_def]
    /\ UNCHANGED <<conn, file, live, issued, warnings, session, others>>

GenerateSQLDatabase(models) ==
  \E r \in {GenerateSQLDatabase_Build(models,
                                      [n \in TableNames |-> SQLTable(n)])} :
    /\ db' = IF r.error = NoError THEN r.db ELSE SQLDatabase
    /\ tbl' = IF r.error = NoError THEN r.tbl
              ELSE [n \in TableNames |-> SQLTable(n)]
    /\ ret' = [op |-> "GenerateSQLDatabase", error |-> r.error,
               value |-> <<>>, db_def |-> models]
    /\ UNCHANGED <<conn, file, live, issued, warnings, session, others>>

InitBuild == InitTable

\* a run builds one database, by either front end, and then examines it
NextBuild ==
  \/ \E db_def \in DatabaseDefs :
       ret.op = "init" /\ DatabaseCreateFromDictV2(db_def)
  \/ \E models \in DatabaseDefs :
       ret.op = "init" /\ GenerateSQLDatabase(models)
  \/ ret.op # "init" /\ CheckForeignKeyCycles

SpecBuild == InitBuild /\ [][NextBuild]_vars

\* the foreign keys a description declares form a cycle among its tables
RECURSIVE DefReached(_, _, _)
DefReached(db_def, S, n) ==
  IF n = 0 THEN {}
  ELSE LET step == UNION {Range(db_def[i].refs) :
                            i \in {j \in 1..Len(db_def) : db_def[j].name \in S}}
       IN step \cup DefReached(db_def, step, n - 1)

DefCycle(db_def) ==
  \E i \in 1..Len(db_def) :
    db_def[i].name \in DefReached(db_def, {db_def[i].name}, Len(db_def))

DefResolved(db_def) ==
  \A i \in 1..Len(db_def) :
    Range(db_def[i].refs) \subseteq {db_def[j].name : j \in 1..Len(db_def)}

(***************************************************************************)
(* C21.  A database built from a description whose tables form a foreign-  *)
(* key cycle (every referenced table being described) is refused: the      *)
(* call raises the foreign-key-cycle error and no database is returned,    *)
(* by SQLDatabase.CreateFromDictV2 as by GenerateSQLDatabase.              *)
(***************************************************************************)
C21_CyclicDescriptionRefused ==
  (/\ ret.op \in {"SQLDatabase.CreateFromDictV2", "GenerateSQLDatabase"}
   /\ DefResolved(ret.db_def)
   /\ DefCycle(ret.db_def))
    => /\ ret.error = "ForeignKeyCycle"
       /\ db = SQLDatabase

\* the class-based front end alone: it refuses every cyclic description
C21_ClassFrontEndRefuses ==
  (/\ ret.op = "GenerateSQLDatabase"
   /\ DefResolved(ret.db_def)
   /\ DefCycle(ret.db_def))
    => /\ ret.error = "ForeignKeyCycle"
       /\ db = SQLDatabase

(***************************************************************************)
(* Interval and IntervalManager (data_structure).  A bound is <<>> when it *)
(* is None and <<v>> when it is the number v; the numbers are the points   *)
(* 0..MaxPoint.                                                            *)
(***************************************************************************)
MaxPoint == 4

Points == 0..MaxPoint
Bounds == {<<>>} \cup {<<p>> : p \in Points}

\* Interval(start, end) with _UpdateValid
Interval(start, end) ==
  [_start |-> start, _end |-> end,
   valid |-> Len(start) = 1 /\ Len(end) = 1 /\ start[1] <= end[1]]

Intervals == {Interval(s, e) : s \in Bounds, e \in Bounds}

\* mutant: touching intervals do not intersect
Interval_Intersects_Open(self, other) ==
  IF ~(self.valid /\ other.valid) THEN FALSE
  ELSE self._start[1] < other._end[1] /\ self._end[1] > other._start[1]

Interval_Intersects(self, other) ==
  IF ~(self.valid /\ other.valid) THEN FALSE
  ELSE self._start[1] <= other._end[1] /\ self._end[1] >= other._start[1]

Min(a, b) == IF a <= b THEN a ELSE b
Max(a, b) == IF a >= b THEN a ELSE b

RECURSIVE SortInsert(_, _)
\* x put behind the elements of a sorted list that do not start after it
SortInsert(sorted, x) ==
  IF Len(sorted) = 0 THEN <<x>>
  ELSE IF Head(sorted)._start[1] <= x._start[1]
    THEN <<Head(sorted)>> \o SortInsert(Tail(sorted), x)
  ELSE <<x>> \o sorted

RECURSIVE SortFrom(_, _)
SortFrom(sorted, rest) ==
  IF Len(rest) = 0 THEN sorted
  ELSE SortFrom(SortInsert(sorted, Head(rest)), Tail(rest))

\* self.intervals.sort(key=lambda x: x.GetStart()): a stable sort
IntervalManager_SortIntervals(ivs) == SortFrom(<<>>, ivs)

\* the indexes of the stored intervals that interval intersects, ascending
IntersectingIntervals(ivs, interval) ==
  {i \in 1..Len(ivs) : Interval_Intersects(interval, ivs[i])}

IntervalManager_AddInterval(ivs, interval) ==
  IF ~interval.valid THEN ivs
  ELSE LET hit == IntersectingIntervals(ivs, interval) IN
    IF hit = {} THEN IntervalManager_SortIntervals(Append(ivs, interval))
    ELSE LET first == CHOOSE i \in hit : \A j \in hit : i <= j
             last == CHOOSE i \in hit : \A j \in hit : i >= j
             start == Min(interval._start[1], ivs[first]._start[1])
             end == Max(interval._end[1], ivs[last]._end[1])
         IN IntervalManager_SortIntervals(
              SubSeq(ivs, 1, first - 1)
                \o <<Interval(<<start>>, <<end>>)>>
                \o SubSeq(ivs, last + 1, Len(ivs)))

RECURSIVE RemoveFrom(_, _)
\* mutant: an interval cut in the middle keeps its left part only
RemoveFrom_LeftOnly(ivs, remove_interval) ==
  IF Len(ivs) = 0 THEN <<>>
  ELSE LET existing_interval == Head(ivs) IN
    (IF ~Interval_Intersects(remove_interval, existing_interval)
       THEN <<existing_interval>>
     ELSE IF remove_interval._start[1] > existing_interval._start[1]
       THEN <<Interval(existing_interval._start, remove_interval._start)>>
     ELSE IF remove_interval._end[1] < existing_interval._end[1]
       THEN <<Interval(remove_interval._end, existing_interval._end)>>
     ELSE <<>>)
    \o RemoveFrom(Tail(ivs), remove_interval)

\* for existing_interval in self.intervals: keep it, or the parts of it
\* before remove_interval's start and after remove_interval's end
RemoveFrom(ivs, remove_interval) ==
  IF Len(ivs) = 0 THEN <<>>
  ELSE LET existing_interval == Head(ivs) IN
    (IF ~Interval_Intersects(remove_interval, existing_interval)
       THEN <<existing_interval>>
     ELSE (IF remove_interval._start[1] > existing_interval._start[1]
             THEN <<Interval(existing_interval._start, remove_interval._start)>>
           ELSE <<>>)
          \o (IF remove_interval._end[1] < existing_interval._end[1]
                THEN <<Interval(remove_interval._end, existing_interval._end)>>
              ELSE <<>>))
    \o RemoveFrom(Tail(ivs), remove_interval)

IntervalManager_RemoveInterval(ivs, interval) ==
  IntervalManager_SortIntervals(RemoveFrom(ivs, interval))

\* the calls on the manager; the record of a call keeps the interval passed
\* and the list the manager held before it
AddInterval(interval) ==
  /\ intervals' = IntervalManager_AddInterval(intervals, interval)
  /\ ret' = [op |-> "AddInterval", error |-> NoError, value |-> <<>>,
             interval |-> interval, before |-> intervals]
  /\ UNCHANGED <<tbl, db, conn, file, live, issued, warnings, session,
                 trigger, pool>>

RemoveInterval(interval) ==
  /\ intervals' = IntervalManager_RemoveInterval(intervals, interval)
  /\ ret' = [op |-> "RemoveInterval", error |-> NoError, value |-> <<>>,
             interval |-> interval, before |-> intervals]
  /\ UNCHANGED <<tbl, db, conn, file, live, issued, warnings, session,
                 trigger, pool>>

\* IntervalManager(): no interval is stored
InitIntervals == InitTable

NextIntervals ==
  \/ \E interval \in Intervals : AddInterval(interval)
  \/ \E interval \in Intervals : RemoveInterval(interval)

SpecIntervals == InitIntervals /\ [][NextIntervals]_vars

\* a list of valid intervals, sorted, no two of which intersect: each ends
\* before the next one starts
SortedDisjoint(ivs) ==
  /\ \A i \in 1..Len(ivs) : ivs[i].valid
  /\ \A i \in 1..Len(ivs) - 1 : ivs[i]._end[1] < ivs[i + 1]._start[1]

SetMin(S) == CHOOSE x \in S : \A y \in S : x <= y
SetMax(S) == CHOOSE x \in S : \A y \in S : x >= y

(***************************************************************************)
(* C22.  AddInterval on a manager whose list is sorted and pairwise        *)
(* non-intersecting: an invalid interval leaves the list as it was; a      *)
(* valid interval that intersects no stored interval is inserted at its    *)
(* sorted position; a valid interval that intersects stored intervals      *)
(* (touching counts) replaces all of them by the one interval from the     *)
(* smallest start to the largest end; the list is again sorted and         *)
(* pairwise non-intersecting.                                              *)
(***************************************************************************)
C22_AddIntervalKeepsDisjoint ==
  (ret.op = "AddInterval" /\ SortedDisjoint(ret.before)) =>
    LET before == ret.before
        new == ret.interval
        hit == {i \in 1..Len(before) :
                  /\ new.valid
                  /\ new._start[1] <= before[i]._end[1]
                  /\ before[i]._start[1] <= new._end[1]}
        k == Cardinality({i \in 1..Len(before) :
                            before[i]._start[1] < new._start[1]})
    IN /\ ~new.valid => intervals = before
       /\ (new.valid /\ hit = {}) =>
            intervals = SubSeq(before, 1, k) \o <<new>>
                          \o SubSeq(before, k + 1, Len(before))
       /\ (new.valid /\ hit # {}) =>
            LET starts == {new._start[1]} \cup {before[i]._start[1] : i \in hit}
                ends == {new._end[1]} \cup {before[i]._end[1] : i \in hit}
                rest == {i \in 1..Len(before) : i \notin hit}
            IN /\ Len(intervals) = Cardinality(rest) + 1
               /\ \E at \in 1..Len(intervals) :
                    /\ intervals[at] = Interval(<<SetMin(starts)>>, <<SetMax(ends)>>)
                    /\ \A i \in rest :
                         intervals[IF i < SetMin(hit) THEN i
                                   ELSE i - Cardinality(hit) + 1] = before[i]
                    /\ at = SetMin(hit)
       /\ SortedDisjoint(intervals)

\* an interval was added that touches one stored interval at its end and
\* overlaps the next: the two became one, the third was kept
C22_Witness ==
  /\ ret.op = "AddInterval"
  /\ ret.before = <<Interval(<<0>>, <<1>>), Interval(<<2>>, <<2>>),
                    Interval(<<4>>, <<4>>)>>
  /\ ret.interval = Interval(<<1>>, <<2>>)
  /\ intervals = <<Interval(<<0>>, <<2>>), Interval(<<4>>, <<4>>)>>

(***************************************************************************)
(* C23.  RemoveInterval(r) replaces every stored interval [s, e] that      *)
(* intersects r by the parts of it outside r, r's boundary points kept:    *)
(* [s, r.start] when r.start > s and [r.end, e] when r.end < e, nothing    *)
(* when r covers it; the stored intervals that do not intersect r are      *)
(* kept as they are, and the resulting list is sorted by start.            *)
(***************************************************************************)
C23_RemoveIntervalCuts ==
  ret.op = "RemoveInterval" =>
    LET before == ret.before
        r == ret.interval
        meets(x) == /\ r.valid /\ x.valid
                    /\ r._start[1] <= x._end[1] /\ x._start[1] <= r._end[1]
        parts(x) ==
          IF ~meets(x) THEN {x}
          ELSE (IF r._start[1] > x._start[1]
                  THEN {Interval(x._start, r._start)} ELSE {})
               \cup (IF r._end[1] < x._end[1]
                       THEN {Interval(r._end, x._end)} ELSE {})
        expected == UNION {parts(before[i]) : i \in 1..Len(before)}
        count(p) == Cardinality({i \in 1..Len(before) : p \in parts(before[i])})
    IN /\ Range(intervals) = expected
       /\ \A p \in expected :
            Cardinality({i \in 1..Len(intervals) : intervals[i] = p}) = count(p)
       /\ \A i \in 1..Len(intervals) - 1 :
            intervals[i]._start[1] <= intervals[i + 1]._start[1]

\* an interval was removed from the middle of a stored interval: that one
\* was cut in two parts, the other stored intervals were kept
C23_Witness ==
  /\ ret.op = "RemoveInterval"
  /\ ret.before = <<Interval(<<0>>, <<0>>), Interval(<<1>>, <<3>>),
                    Interval(<<4>>, <<4>>)>>
  /\ ret.interval = Interval(<<2>>, <<2>>)
  /\ intervals = <<Interval(<<0>>, <<0>>), Interval(<<1>>, <<2>>),
                   Interval(<<2>>, <<3>>), Interval(<<4>>, <<4>>)>>

(***************************************************************************)
(* The order of a generated script.                                        *)
(***************************************************************************)
\* the tables of the script's CREATE TABLE statements, in the script's order
CreatedTables(script) ==
  LET creates == SelectSeq(script, LAMBDA st : st.kind = "CREATE TABLE") IN
    [i \in 1..Len(creates) |-> creates[i].table]

\* the database is valid: no cycle among the declared foreign keys, and
\* every referenced table is in the database
ValidDatabase == ~DeclaredCycle /\ FullyResolved

RECURSIVE Dequeued(_, _)
\* the tables the Kahn loop dequeues: those whose foreign keys all reference
\* dequeued tables, found in at most n rounds
Dequeued(S, n) ==
  IF n = 0 THEN S
  ELSE Dequeued(S \cup {t \in db.table_name_dict :
                          \A k \in 1..Len(tbl[t].foreign_keys) :
                            tbl[t].foreign_keys[k].ref_table \in S},
                n - 1)

(***************************************************************************)
(* C24.  The creation order is stable: in the script GenerateSQLScript     *)
(* returns for a valid database, two tables that declare the same number   *)
(* of foreign keys are created in the order they were added in.            *)
(***************************************************************************)
C24_StableCreationOrder ==
  (ret.op = "GenerateSQLScript" /\ ret.error = NoError /\ ValidDatabase) =>
    \A i, j \in 1..Len(db.tables) :
      (/\ i < j
       /\ Len(tbl[db.tables[i]].foreign_keys) = Len(tbl[db.tables[j]].foreign_keys))
        => \A p \in CreateTablePlaces(ret.value, db.tables[i]),
              q \in CreateTablePlaces(ret.value, db.tables[j]) : p < q

(***************************************************************************)
(* C25.  Whenever GenerateSQLScript returns a script, the script has       *)
(* exactly one CREATE TABLE statement for each table of the database and   *)
(* for no other table; the tables the Kahn loop never dequeued are created *)
(* last, in the order they were added in; and every CREATE INDEX statement *)
(* comes after all CREATE TABLE statements.                                *)
(***************************************************************************)
C25_NoTableDroppedOrDuplicated ==
  (ret.op = "GenerateSQLScript" /\ ret.error = NoError) =>
    LET created == CreatedTables(ret.value)
        left == db.table_name_dict \ Dequeued({}, Len(db.tables))
    IN /\ Len(created) = Len(db.tables)
       /\ \A n \in db.table_name_dict :
            Cardinality(CreateTablePlaces(ret.value, n)) = 1
       /\ SubSeq(created, Len(created) - Cardinality(left) + 1, Len(created))
            = SelectSeq(db.tables, LAMBDA n : n \in left)
       /\ \A i, j \in 1..Len(ret.value) :
            (ret.value[i].kind = "CREATE TABLE"
               /\ ret.value[j].kind = "CREATE INDEX") => i < j
       /\ Cardinality({i \in 1..Len(ret.value) :
                         ret.value[i].kind = "CREATE INDEX"}) = Len(db.tables)

\* a script was returned for three tables of which the first two added close
\* a cycle that the graph of the database does not show
C25_Witness ==
  /\ ret.op = "GenerateSQLScript"
  /\ ret.error = NoError
  /\ Len(db.tables) = 3
  /\ Cardinality(Dequeued({}, 3)) = 1
  /\ CreatedTables(ret.value)[1] = db.tables[3]
  /\ Len(ret.value) = 6

(***************************************************************************)
(* C26.  In every reachable state the foreign_key_graph of the database    *)
(* has an edge ref_table -> T for exactly the foreign keys each table T    *)
(* of the database declares at that moment, those added with               *)
(* AddForeignKey after T was added included; CheckForeignKeyCycles and     *)
(* ValidateStructure therefore report every cycle among the declared       *)
(* foreign keys.                                                           *)
(***************************************************************************)
C26_GraphFollowsDeclarations ==
  /\ \A t \in db.table_name_dict, r \in RefNames :
       RecordedCount(db, t, r) = DeclaredCount(t, r)
  /\ DeclaredCycle =>
       /\ ret.op = "CheckForeignKeyCycles" => ret.value = <<TRUE>>
       /\ ret.op = "ValidateStructure" => ret.error = "ForeignKeyCycle"

\* the second half alone: a declared cycle is always reported
C26_DeclaredCycleReported ==
  DeclaredCycle =>
    /\ ret.op = "CheckForeignKeyCycles" => ret.value = <<TRUE>>
    /\ ret.op = "ValidateStructure" => ret.error = "ForeignKeyCycle"

(***************************************************************************)
(* C27.  AddIndex accepts every index on existing columns whose name,      *)
(* explicit or derived from the table and the columns, is not the name     *)
(* of an index of the table: two unnamed indexes on different column       *)
(* lists are both accepted, rendered in between or not.                    *)
(***************************************************************************)
C27_NewIndexNameAccepted ==
  [][\A c \in ColumnLists \ {<<>>}, n \in IndexNames :
       (/\ AddIndex(TheTable, c, FALSE, n)
        /\ \A i \in 1..Len(c) : c[i] \in tbl[TheTable].field_name_dict
        /\ \A i \in 1..Len(tbl[TheTable].indexes) :
             EffectiveIndexName(tbl[TheTable], tbl[TheTable].indexes[i])
               # EffectiveIndexName(tbl[TheTable], Index(c, FALSE, n)))
         => /\ ret'.error = NoError
            /\ Len(tbl'[TheTable].indexes) = Len(tbl[TheTable].indexes) + 1]_vars

(***************************************************************************)
(* AsyncTimedTrigger (async_component).  The coroutines run on one event   *)
(* loop: a step of the model is the code a coroutine runs from one         *)
(* suspension to the next.  The trigger is configured as constructed, with *)
(* a callback set; the callback suspends, so that it takes time.           *)
(*                                                                         *)
(* Time is kept relative: remaining is _trigger_activate_time minus the    *)
(* clock (0 once it has passed), sleep_left the rest of a task's sleep.    *)
(***************************************************************************)
NumCallers == 2     \* coroutines that call Start / Stop on the trigger
MaxTasks == 2       \* loop tasks created over a run
MaxSeconds == 3     \* largest seconds_to_activate
MaxActivations == 5 \* ActivateTimedTrigger calls over a run

Callers == 1..NumCallers

\* AsyncTimedTrigger(): no task, the lock free, nobody waiting
AsyncTimedTrigger ==
  [_task |-> 0,
   _trigger_loop_flag |-> FALSE,
   _trigger_cond_var_wait |-> TRUE,
   remaining |-> 0,
   locked |-> FALSE,          \* _task_access_lock._locked
   waiters |-> <<>>,          \* _task_access_lock._waiters
   cond_waiters |-> <<>>,     \* _trigger_loop_cond_var._waiters
   tasks |-> <<>>,            \* the tasks made by loop.create_task
   callers |-> [c \in Callers |-> "idle"],
   activated |-> 0,           \* the ActivateTimedTrigger calls made so far
   unanswered |-> "none"]     \* where the loop was when the last activation
                              \* arrived that no callback has started after

\* asyncio.Lock.release: unlock and wake the first waiter if it is not woken
Release(t) ==
  [t EXCEPT !.locked = FALSE,
            !.waiters = IF Len(@) > 0 /\ ~@[1].done
                          THEN [@ EXCEPT ![1].done = TRUE] ELSE @]

\* Task.cancel: a task that is not done is to get CancelledError when it
\* next runs
Cancel(t, id) ==
  IF t.tasks[id].pc = "done" THEN t
  ELSE [t EXCEPT !.tasks[id].must_cancel = TRUE]

\* the body of StopTriggerHandlerTask under the lock
StopBody(t) ==
  IF t._task = 0 THEN t
  ELSE [Cancel(t, t._task) EXCEPT !._trigger_loop_flag = FALSE, !._task = 0]

\* self._trigger_loop_flag = True; self._task = loop.create_task(...);
\* await asyncio.sleep(0.1)
CreateTask(t, c) ==
  [t EXCEPT !._trigger_loop_flag = TRUE,
            !._task = Len(t.tasks) + 1,
            !.tasks = Append(@, [pc |-> "created", must_cancel |-> FALSE,
                                 sleep_left |-> 0]),
            !.callers[c] = "start_sleep"]

RECURSIVE Continue(_, _, _), AcquireThen(_, _, _)
\* asyncio.Lock.acquire by caller c, who goes on at the place at: at once
\* when the lock is free and nobody waits for it, else once it is woken
AcquireThen(t, c, at) ==
  IF ~t.locked /\ Len(t.waiters) = 0
    THEN Continue([t EXCEPT !.locked = TRUE], c, at)
  ELSE [t EXCEPT !.waiters = Append(@, [co |-> c, at |-> at, done |-> FALSE]),
                 !.callers[c] = "lock_wait"]

\* caller c runs on, holding the lock, from the place at to its next
\* suspension
Continue(t, c, at) ==
  IF at = "start_locked"
    THEN IF t._task # 0
           THEN AcquireThen(Release(t), c, "start_stop_locked")
         ELSE CreateTask(t, c)
  ELSE IF at = "start_stop_locked"
    THEN AcquireThen(Release(StopBody(t)), c, "start_relocked")
  ELSE IF at = "start_relocked"
    THEN CreateTask(t, c)
  ELSE \* "stop_locked"
    [Release(StopBody(t)) EXCEPT !.callers[c] = "idle"]

\* Condition.notify(): the first waiter not yet woken is woken
Notify(t) ==
  LET fresh == {i \in 1..Len(t.cond_waiters) : ~t.cond_waiters[i].done} IN
    IF fresh = {} THEN t
    ELSE [t EXCEPT !.cond_waiters[CHOOSE i \in fresh :
                                    \A j \in fresh : i <= j].done = TRUE]

\* the end of a loop task
Done(t, id) ==
  [t EXCEPT !.tasks[id] = [pc |-> "done", must_cancel |-> FALSE,
                           sleep_left |-> 0]]

\* while current_time < self._trigger_activate_time: await asyncio.sleep(..)
\* and then: await self._trigger_async_function()
SleepOrCallback(t, id) ==
  IF t.remaining > 0
    THEN [t EXCEPT !.tasks[id].pc = "sleep",
                   !.tasks[id].sleep_left = t.remaining]
  ELSE [t EXCEPT !.tasks[id].pc = "callback", !.unanswered = "none"]

\* after the wait on the condition: if self._trigger_loop_flag is False: break
AfterWait(t, id) ==
  IF ~t._trigger_loop_flag THEN Done(t, id) ELSE SleepOrCallback(t, id)

\* while self._trigger_loop_flag: wait on the condition, or go on at once
LoopHead(t, id) ==
  IF ~t._trigger_loop_flag THEN Done(t, id)
  ELSE IF t._trigger_cond_var_wait
    THEN [t EXCEPT !.tasks[id].pc = "wait",
                   !.cond_waiters = Append(@, [task |-> id, done |-> FALSE])]
  ELSE AfterWait(t, id)

\* a coroutine is ready to run: the event loop runs it before any timer
Ready(t) ==
  \/ \E i \in 1..Len(t.waiters) : t.waiters[i].done
  \/ \E i \in 1..Len(t.cond_waiters) : t.cond_waiters[i].done
  \/ \E id \in 1..Len(t.tasks) :
       t.tasks[id].pc = "created" \/ t.tasks[id].must_cancel

TriggerStep(t) ==
  /\ trigger' = t
  /\ UNCHANGED <<tbl, db, ret, conn, file, live, issued, warnings, session,
                 intervals, pool>>

(***************************************************************************)
(* The callers                                                             *)
(***************************************************************************)
StartTriggerHandlerTask(c) ==
  /\ trigger.callers[c] = "idle"
  /\ Len(trigger.tasks) < MaxTasks
  /\ TriggerStep(AcquireThen(trigger, c, "start_locked"))

StopTriggerHandlerTask(c) ==
  /\ trigger.callers[c] = "idle"
  /\ TriggerStep(AcquireThen(trigger, c, "stop_locked"))

\* a caller woken by release() takes the lock and runs on
LockAcquired(c) ==
  /\ trigger.callers[c] = "lock_wait"
  /\ \E i \in 1..Len(trigger.waiters) :
       /\ trigger.waiters[i].co = c
       /\ trigger.waiters[i].done
       /\ TriggerStep(
            Continue([trigger EXCEPT
                        !.locked = TRUE,
                        !.waiters = SubSeq(@, 1, i - 1)
                                      \o SubSeq(@, i + 1, Len(@))],
                     c, trigger.waiters[i].at))

\* asyncio.sleep(0.1) is over: the lock is released, the call returns
StartReturns(c) ==
  /\ trigger.callers[c] = "start_sleep"
  /\ ~Ready(trigger)
  /\ TriggerStep([Release(trigger) EXCEPT !.callers[c] = "idle"])

\* no suspension: the condition's lock is never held across one
ActivateTimedTrigger(seconds_to_activate) ==
  /\ trigger.activated < MaxActivations
  /\ TriggerStep([Notify(trigger) EXCEPT !.remaining = seconds_to_activate,
                                         !.activated = @ + 1,
                                         !.unanswered =
                                            IF trigger._task = 0 THEN "no task"
                                            ELSE trigger.tasks[trigger._task].pc])

(***************************************************************************)
(* _TriggerTaskLoop, one action for each place a task is suspended at      *)
(***************************************************************************)
\* the first step of a task; a task cancelled before it never runs its body
TaskStarts(id) ==
  /\ trigger.tasks[id].pc = "created"
  /\ TriggerStep(IF trigger.tasks[id].must_cancel THEN Done(trigger, id)
                 ELSE LoopHead(trigger, id))

\* woken on the condition by notify(), or by cancel()
TaskWakes(id) ==
  /\ trigger.tasks[id].pc = "wait"
  /\ \E i \in 1..Len(trigger.cond_waiters) :
       /\ trigger.cond_waiters[i].task = id
       /\ trigger.cond_waiters[i].done \/ trigger.tasks[id].must_cancel
       /\ \E t \in {[trigger EXCEPT !.cond_waiters =
                       SubSeq(@, 1, i - 1) \o SubSeq(@, i + 1, Len(@))]} :
            TriggerStep(IF trigger.tasks[id].must_cancel THEN Done(t, id)
                        ELSE AfterWait(t, id))

\* asyncio.sleep(sleep_time) is over, or cancel() ends it
TaskSleepEnds(id) ==
  /\ trigger.tasks[id].pc = "sleep"
  /\ \/ trigger.tasks[id].must_cancel
     \/ trigger.tasks[id].sleep_left = 0 /\ ~Ready(trigger)
  /\ TriggerStep(IF trigger.tasks[id].must_cancel THEN Done(trigger, id)
                 ELSE SleepOrCallback(trigger, id))

\* the callback returns, or raises: CancelledError too is caught by the
\* bare except, and the loop goes on
CallbackReturns(id) ==
  /\ trigger.tasks[id].pc = "callback"
  /\ TriggerStep(LoopHead([trigger EXCEPT !.tasks[id].must_cancel = FALSE],
                          id))

\* a second passes
Tick ==
  /\ \/ trigger.remaining > 0
     \/ \E id \in 1..Len(trigger.tasks) : trigger.tasks[id].sleep_left > 0
  /\ TriggerStep(
       [trigger EXCEPT
          !.remaining = IF @ > 0 THEN @ - 1 ELSE 0,
          !.tasks = [id \in 1..Len(@) |->
                       [@[id] EXCEPT !.sleep_left = IF @ > 0 THEN @ - 1 ELSE 0]]])

InitTrigger ==
  /\ tbl = [n \in TableNames |-> SQLTable(n)]
  /\ db = SQLDatabase
  /\ ret = Ret("init", NoError)
  /\ conn = "None"
  /\ file = FALSE
  /\ live = [n \in {} |-> <<>>]
  /\ issued = <<>>
  /\ warnings = <<>>
  /\ NoSession
  /\ intervals = <<>>
  /\ trigger = AsyncTimedTrigger
  /\ pool = <<>>

TaskSteps ==
  \/ \E id \in 1..Len(trigger.tasks) : TaskStarts(id)
  \/ \E id \in 1..Len(trigger.tasks) : TaskWakes(id)
  \/ \E id \in 1..Len(trigger.tasks) : TaskSleepEnds(id)
  \/ \E id \in 1..Len(trigger.tasks) : CallbackReturns(id)

\* SpecTrigger: callers start and stop the handler and activate the trigger
\* in any order
NextTrigger ==
  \/ \E c \in Callers : StartTriggerHandlerTask(c)
  \/ \E c \in Callers : StopTriggerHandlerTask(c)
  \/ \E c \in Callers : LockAcquired(c)
  \/ \E c \in Callers : StartReturns(c)
  \/ \E s \in 0..MaxSeconds : ActivateTimedTrigger(s)
  \/ TaskSteps
  \/ Tick

SpecTrigger == InitTrigger /\ [][NextTrigger]_vars

\* SpecLoop: the handler is started once and never stopped; the trigger is
\* activated after StartTriggerHandlerTask has returned.  The event loop
\* runs every ready task, the clock advances, and the callback returns.
NextLoop ==
  \/ /\ Len(trigger.tasks) = 0
     /\ StartTriggerHandlerTask(1)
  \/ StartReturns(1)
  \/ \E s \in 0..MaxSeconds :
       /\ trigger._task # 0
       /\ trigger.callers[1] = "idle"
       /\ ActivateTimedTrigger(s)
  \/ TaskSteps
  \/ Tick

SpecLoop ==
  /\ InitTrigger
  /\ [][NextLoop]_vars
  /\ WF_vars(StartReturns(1))
  /\ WF_vars(TaskSteps)
  /\ WF_vars(Tick)

(***************************************************************************)
(* C28.  No activation is lost: while the handler task runs, every         *)
(* ActivateTimedTrigger call (made while the loop waits on the condition,  *)
(* sleeps towards the activation time, or is inside the callback) is       *)
(* eventually followed by a callback invocation that starts after it,      *)
(* without a further activation.                                           *)
(***************************************************************************)
C28_NoActivationLost ==
  (trigger.unanswered # "none") ~> (trigger.unanswered = "none")

\* the two cases in which the activation is answered: it arrives while the
\* loop waits on the condition or sleeps
C28_AnsweredWhenWaitingOrSleeping ==
  (trigger.unanswered \in {"wait", "sleep"}) ~> (trigger.unanswered = "none")

\* the loop tasks that have not ended and have no cancellation to receive
AliveTasks ==
  {id \in 1..Len(trigger.tasks) :
     trigger.tasks[id].pc # "done" /\ ~trigger.tasks[id].must_cancel}

(***************************************************************************)
(* C29.  At most one loop task is alive at any time, whatever the          *)
(* interleaving of the Start and Stop coroutines: a task that is alive is  *)
(* the one recorded in _task, and when no task is recorded (after a Stop)  *)
(* none is alive.                                                          *)
(***************************************************************************)
C29_OneLoopTask ==
  /\ Cardinality(AliveTasks) <= 1
  /\ AliveTasks \subseteq {trigger._task}

(***************************************************************************)
(* OneInThreadPool / OneInOneOutThreadPool (dispatch/thread_builder.py).   *)
(* A step is one queue operation, one call of process_fn (which returns),  *)
(* or one step of JoinThreads; queue.Queue is unbounded and its get and    *)
(* put are atomic.  The caller puts the items ItemList[1], ItemList[2], .. *)
(* and may put None itself.                                                *)
(***************************************************************************)
MaxThreads == 2     \* largest thread_count
MaxItems == 2       \* items the caller puts on the input queue
MaxNones == 1       \* None values the caller puts on the input queue
MaxJoins == 2       \* JoinThreads calls

ItemList == <<"i1", "i2", "i3", "i4">>
Items == {ItemList[k] : k \in 1..MaxItems}
PoolKinds == {"OneInThreadPool", "OneInOneOutThreadPool"}

\* the pool after __init__: thread_count threads started, each about to
\* call in_queue.get()
ThreadPool(kind, thread_count) ==
  [kind |-> kind,
   thread_count |-> thread_count,
   active |-> TRUE,
   in_queue |-> <<>>,
   out_queue |-> <<>>,
   threads |-> [i \in 1..thread_count |-> [pc |-> "get", item |-> None]],
   join |-> [phase |-> "idle", i |-> 0],  \* the JoinThreads call in progress
   joins |-> 0,               \* JoinThreads calls made
   items |-> 0,               \* items put
   nones |-> 0,               \* None values put by the caller
   put_before |-> {},         \* the items put before JoinThreads was called
   processed |-> <<>>]        \* the items passed to process_fn, in order

PoolStep(p) ==
  /\ pool' = p
  /\ UNCHANGED <<tbl, db, conn, file, live, issued, warnings, session,
                 intervals, trigger>>

\* the caller: in_queue.put(item)
PutItem ==
  /\ pool.items < MaxItems
  /\ PoolStep([pool EXCEPT
                 !.in_queue = Append(@, ItemList[pool.items + 1]),
                 !.items = @ + 1,
                 !.put_before = IF pool.joins = 0
                                  THEN @ \cup {ItemList[pool.items + 1]} ELSE @])
  /\ UNCHANGED ret

\* the caller: in_queue.put(None)
PutNone ==
  /\ pool.nones < MaxNones
  /\ PoolStep([pool EXCEPT !.in_queue = Append(@, None), !.nones = @ + 1])
  /\ UNCHANGED ret

\* item = in_queue.get(); if item is None: break
ThreadGet(i) ==
  /\ pool.threads[i].pc = "get"
  /\ Len(pool.in_queue) > 0
  /\ PoolStep([pool EXCEPT
                 !.in_queue = Tail(@),
                 !.threads[i] =
                    IF Head(pool.in_queue) = None
                      THEN [pc |-> "ended", item |-> None]
                    ELSE [pc |-> "process", item |-> Head(pool.in_queue)]])
  /\ UNCHANGED ret

\* process_fn(item=item, i=i, obj=obj) is called and returns
ThreadProcess(i) ==
  /\ pool.threads[i].pc = "process"
  /\ PoolStep([pool EXCEPT
                 !.processed = Append(@, pool.threads[i].item),
                 !.threads[i] =
                    IF pool.kind = "OneInThreadPool"
                      THEN [pc |-> "get", item |-> None]
                    ELSE [pc |-> "put", item |-> pool.threads[i].item]])
  /\ UNCHANGED ret

\* out_queue.put(result)
ThreadPutResult(i) ==
  /\ pool.threads[i].pc = "put"
  /\ PoolStep([pool EXCEPT
                 !.out_queue = Append(@, [result_of |-> pool.threads[i].item]),
                 !.threads[i] = [pc |-> "get", item |-> None]])
  /\ UNCHANGED ret

\* mutant: join() returns at once
Joined_NoWait(p, i) == TRUE

\* self.__threads[i].join() returns: the thread has ended
Joined(p, i) == p.threads[i].pc = "ended"

\* JoinThreads is called: it raises on an inactive pool, else it marks the
\* pool inactive and goes on to put the None values
JoinThreads ==
  /\ pool.joins < MaxJoins
  /\ IF ~pool.active
       THEN /\ PoolStep([pool EXCEPT !.joins = @ + 1])
            /\ ret' = [op |-> "JoinThreads", error |-> "ValueError",
                       value |-> <<>>, call |-> pool.joins + 1]
       ELSE /\ PoolStep([pool EXCEPT
                           !.joins = @ + 1,
                           !.active = FALSE,
                           !.join = IF pool.thread_count = 0
                                      THEN [phase |-> "returned", i |-> 0]
                                    ELSE [phase |-> "put", i |-> 0]])
            /\ ret' = IF pool.thread_count = 0
                        THEN [op |-> "JoinThreads", error |-> NoError,
                              value |-> <<>>, call |-> pool.joins + 1]
                      ELSE ret

\* for i in range(self.__thread_count): self.__in_queue.put(None)
JoinPutNone ==
  /\ pool.join.phase = "put"
  /\ PoolStep([pool EXCEPT
                 !.in_queue = Append(@, None),
                 !.join = IF pool.join.i + 1 = pool.thread_count
                            THEN [phase |-> "join", i |-> 1]
                          ELSE [phase |-> "put", i |-> pool.join.i + 1]])
  /\ UNCHANGED ret

\* for i in range(self.__thread_count): self.__threads[i].join()
JoinThread ==
  /\ pool.join.phase = "join"
  /\ Joined(pool, pool.join.i)
  /\ PoolStep([pool EXCEPT
                 !.join = IF pool.join.i = pool.thread_count
                            THEN [phase |-> "returned", i |-> 0]
                          ELSE [phase |-> "join", i |-> pool.join.i + 1]])
  /\ ret' = IF pool.join.i = pool.thread_count
              THEN [op |-> "JoinThreads", error |-> NoError, value |-> <<>>,
                    call |-> 1]
            ELSE ret

InitPool ==
  /\ tbl = [n \in TableNames |-> SQLTable(n)]
  /\ db = SQLDatabase
  /\ ret = Ret("init", NoError)
  /\ conn = "None"
  /\ file = FALSE
  /\ live = [n \in {} |-> <<>>]
  /\ issued = <<>>
  /\ warnings = <<>>
  /\ NoSession
  /\ intervals = <<>>
  /\ trigger = <<>>
  /\ \E kind \in PoolKinds, thread_count \in 0..MaxThreads :
       pool = ThreadPool(kind, thread_count)

NextPool ==
  \/ PutItem
  \/ PutNone
  \/ \E i \in 1..pool.thread_count : ThreadGet(i)
  \/ \E i \in 1..pool.thread_count : ThreadProcess(i)
  \/ \E i \in 1..pool.thread_count : ThreadPutResult(i)
  \/ JoinThreads
  \/ JoinPutNone
  \/ JoinThread

SpecPool == InitPool /\ [][NextPool]_vars

\* how often item x was passed to process_fn, and how many results it has
TimesProcessed(x) ==
  Cardinality({k \in 1..Len(pool.processed) : pool.processed[k] = x})

ResultsOf(x) ==
  Cardinality({k \in 1..Len(pool.out_queue) : pool.out_queue[k].result_of = x})

\* what the claim promises of the pool in the current state
PoolPromise ==
  /\ \A x \in Items : TimesProcessed(x) <= 1 /\ ResultsOf(x) <= TimesProcessed(x)
  /\ pool.join.phase = "returned" =>
       /\ \A x \in pool.put_before :
            /\ TimesProcessed(x) = 1
            /\ pool.kind = "OneInOneOutThreadPool" => ResultsOf(x) = 1
       /\ \A i \in 1..pool.thread_count : pool.threads[i].pc = "ended"
  /\ ret.op = "JoinThreads" =>
       (ret.error = "ValueError" <=> ret.call > 1)

====
